---- MODULE Spec2Model ----
(***************************************************************************)
(* Latitude/longitude graticule of WebWorldWind: the tile quadtree          *)
(* (GraticuleGridTile, LatLonGraticuleGridTile), the grid elements, the     *)
(* layer (GraticuleLayer, LatLonGraticuleLayer) and GraticuleSupport.       *)
(*                                                                         *)
(* Conventions.                                                            *)
(*  - Angles are integers in units of 1/U degree, so that the steps         *)
(*    deltaLatitude/divisions of the code are exact.                        *)
(*  - A JavaScript value that may be null/undefined is a sequence of length *)
(*    0 (absent) or 1 (present): None, Some(x).                             *)
(*  - A call returns a record with an err field: "" for a normal return,    *)
(*    else the name of the exception thrown.  State written before the      *)
(*    throw is kept, as in JavaScript.                                      *)
(***************************************************************************)
EXTENDS Integers, Sequences, FiniteSets, TLC

VARIABLES tile, ret, layer, frame, host

vars == <<tile, ret, layer, frame, host>>

None == <<>>
Some(x) == <<x>>
IsSome(o) == Len(o) = 1
Val(o) == o[1]

NoError == ""

\* Angle units per degree: deltaLatitude / divisions is exact for 10-degree
\* sectors split in 6 or 10.
U == 2 * 3

Abs(x) == IF x < 0 THEN -x ELSE x

-----------------------------------------------------------------------------
(* geom/Sector and the draw context's geometry                              *)

Sector(minLat, maxLat, minLon, maxLon) ==
    [minLatitude |-> minLat, maxLatitude |-> maxLat,
     minLongitude |-> minLon, maxLongitude |-> maxLon]

deltaLatitude(s) == s.maxLatitude - s.minLatitude

deltaLongitude(s) == s.maxLongitude - s.minLongitude

\* Sector.overlaps: the two regions share interior (strict comparisons).
overlaps(s, vs) ==
    /\ s.minLongitude < vs.maxLongitude
    /\ s.maxLongitude > vs.minLongitude
    /\ s.minLatitude < vs.maxLatitude
    /\ s.maxLatitude > vs.minLatitude

\* BoundingBox.intersectsFrustum of the sector's extent: the view frustum is
\* represented by its footprint on the surface, dc.frustumInModelCoordinates.
intersectsFrustum(s, frustum) ==
    /\ s.minLongitude <= frustum.maxLongitude
    /\ s.maxLongitude >= frustum.minLongitude
    /\ s.minLatitude <= frustum.maxLatitude
    /\ s.maxLatitude >= frustum.minLatitude

\* Vec3.distanceTo in the model frame (latitude, longitude, altitude), as the
\* sum of the coordinate distances.
distanceTo(p, q) == Abs(p[1] - q[1]) + Abs(p[2] - q[2]) + Abs(p[3] - q[3])

\* Twice the ground point of the sector's centroid (Sector.centroid followed by
\* dc.surfacePointForMode at offset 0), doubled to stay integral.
centroid2(s) ==
    <<s.minLatitude + s.maxLatitude, s.minLongitude + s.maxLongitude, 0>>

-----------------------------------------------------------------------------
(* GridElement                                                              *)

typeLine == "GridElement_Line"
typeLineNorth == "GridElement_LineNorth"
typeLineSouth == "GridElement_LineSouth"
typeLineWest == "GridElement_LineWest"
typeLineEast == "GridElement_LineEast"
typeLongitudeLabel == "GridElement_LongitudeLabel"
typeLatitudeLabel == "GridElement_LatitudeLabel"
typeGridZoneLabel == "GridElement_GridZoneLabel"

\* new GridElement(sector, renderable, type) followed by element.value = value.
\* The renderable is the Path through the two positions.
GridElement(sector, positions, type, value) ==
    [sector |-> sector,
     renderable |-> [kind |-> "Path", positions |-> positions],
     type |-> type,
     value |-> value]

\* GridElement.prototype.isInView(dc): vs defaults to dc.globe.projectionLimits.
elementIsInView(ge, dc) ==
    IF ~IsSome(dc.globe.projectionLimits) THEN FALSE
    ELSE overlaps(ge.sector, Val(dc.globe.projectionLimits))

\* GridElement.prototype.isLine
isLine(ge) ==
    ge.type \in {typeLine, typeLineNorth, typeLineSouth, typeLineWest, typeLineEast,
                 "GridElement_LineNorthing", "GridElement_LineEasting"}

-----------------------------------------------------------------------------
(* GraticuleGridTile                                                        *)

\* new GraticuleGridTile(sector, divisions, level)
GraticuleGridTile(sector, divisions, level) ==
    [sector |-> sector, divisions |-> divisions, level |-> level,
     gridElements |-> None, subTiles |-> None]

\* The meridians of createRenderables: the while loop from `longitude` on.
RECURSIVE meridians(_, _, _)
meridians(t, step, longitude) ==
    IF 2 * longitude < 2 * t.sector.maxLongitude - step
    THEN <<GridElement(
              Sector(t.sector.minLatitude, t.sector.maxLatitude, longitude, longitude),
              <<<<t.sector.minLatitude, longitude>>, <<t.sector.maxLatitude, longitude>>>>,
              IF longitude = t.sector.minLongitude THEN typeLineWest ELSE typeLine,
              longitude)>>
         \o meridians(t, step, longitude + step)
    ELSE <<>>

\* The parallels of createRenderables: the while loop from `latitude` on.
RECURSIVE parallels(_, _, _)
parallels(t, step, latitude) ==
    IF 2 * latitude < 2 * t.sector.maxLatitude - step
    THEN <<GridElement(
              Sector(latitude, latitude, t.sector.minLongitude, t.sector.maxLongitude),
              <<<<latitude, t.sector.minLongitude>>, <<latitude, t.sector.maxLongitude>>>>,
              IF latitude = t.sector.minLatitude THEN typeLineSouth ELSE typeLine,
              latitude)>>
         \o parallels(t, step, latitude + step)
    ELSE <<>>

\* createRenderables that starts both walks on the edge at every level.
createRenderablesFromEdge(t) ==
    LET step == deltaLatitude(t.sector) \div t.divisions
        north == IF t.sector.maxLatitude = 90 * U
                 THEN <<GridElement(
                           Sector(90 * U, 90 * U, t.sector.minLongitude, t.sector.maxLongitude),
                           <<<<90 * U, t.sector.minLongitude>>, <<90 * U, t.sector.maxLongitude>>>>,
                           typeLineNorth,
                           90 * U)>>
                 ELSE <<>>
    IN  [t EXCEPT !.gridElements =
            Some(meridians(t, step, t.sector.minLongitude)
                 \o parallels(t, step, t.sector.minLatitude)
                 \o north)]

\* GraticuleGridTile.prototype.createRenderables
createRenderables(t) ==
    LET step == deltaLatitude(t.sector) \div t.divisions
        first == IF t.level = 0 THEN 0 ELSE step
        north == IF t.sector.maxLatitude = 90 * U
                 THEN <<GridElement(
                           Sector(90 * U, 90 * U, t.sector.minLongitude, t.sector.maxLongitude),
                           <<<<90 * U, t.sector.minLongitude>>, <<90 * U, t.sector.maxLongitude>>>>,
                           typeLineNorth,
                           90 * U)>>
                 ELSE <<>>
    IN  [t EXCEPT !.gridElements =
            Some(meridians(t, step, t.sector.minLongitude + first)
                 \o parallels(t, step, t.sector.minLatitude + first)
                 \o north)]

\* clearRenderables that drops gridElements only.
clearRenderablesShallow(t) == [t EXCEPT !.gridElements = None]

\* GraticuleGridTile.prototype.clearRenderables: gridElements is dropped, every
\* subtile is cleared in turn and the subTiles array is dropped with them.
clearRenderables(t) == [t EXCEPT !.gridElements = None, !.subTiles = None]

RECURSIVE clearedBelow(_)
RECURSIVE clearedFrom(_, _, _)

\* The loop of clearRenderables (lines 316 to 318) over the subtiles i to j:
\* each subtile is cleared, and so are the tiles below it.
clearedFrom(subs, i, j) ==
    IF i > j THEN <<>>
    ELSE IF i = j THEN <<clearRenderables(subs[i])>> \o clearedBelow(subs[i])
    ELSE clearedFrom(subs, i, (i + j) \div 2) \o clearedFrom(subs, ((i + j) \div 2) + 1, j)

\* The tiles below t after t.clearRenderables(), which no longer holds them.
clearedBelow(t) ==
    IF IsSome(t.subTiles) THEN clearedFrom(Val(t.subTiles), 1, Len(Val(t.subTiles))) ELSE <<>>

\* GraticuleGridTile.prototype.subdivideSector: the sectors in row-major order.
subdivideSector(t) ==
    LET dLat == deltaLatitude(t.sector)
        dLon == deltaLongitude(t.sector)
        minLat == t.sector.minLatitude
        minLon == t.sector.minLongitude
    IN  [idx \in 1..(t.divisions * t.divisions) |->
            LET row == (idx - 1) \div t.divisions
                col == (idx - 1) % t.divisions
            IN  Sector(minLat + dLat * row, minLat + dLat * row + dLat,
                       minLon + dLon * col, minLon + dLon * col + dLon)]

\* createSubTiles that gives the subtiles the level of their parent.
createSubTilesSameLevel(t) ==
    LET sectors == subdivideSector(t)
        subdivisions == IF t.level = 0 \/ t.level = 2 THEN 6 ELSE 10
    IN  [t EXCEPT !.subTiles =
            Some([i \in 1..Len(sectors) |->
                     GraticuleGridTile(sectors[i], subdivisions, t.level)])]

\* createSubTiles that takes 6 subdivisions at the levels 0 and 1.
createSubTilesSixBelowTwo(t) ==
    LET sectors == subdivideSector(t)
        subdivisions == IF t.level = 0 \/ t.level = 1 THEN 6 ELSE 10
    IN  [t EXCEPT !.subTiles =
            Some([i \in 1..Len(sectors) |->
                     GraticuleGridTile(sectors[i], subdivisions, t.level + 1)])]

\* LatLonGraticuleGridTile.prototype.createSubTiles
createSubTiles(t) ==
    LET sectors == subdivideSector(t)
        subdivisions == IF t.level = 0 \/ t.level = 2 THEN 6 ELSE 10
    IN  [t EXCEPT !.subTiles =
            Some([i \in 1..Len(sectors) |->
                     GraticuleGridTile(sectors[i], subdivisions, t.level + 1)])]

\* GraticuleGridTile.prototype.getSizeInPixels, as the fraction num / den:
\* deltaLatitude over dc.pixelSizeAtDistance(distance), where the pixel size grows
\* linearly with the distance from dc.eyePoint to the centroid's ground point
\* (distance / dc.pixelScale).  The distance is carried doubled, like centroid2.
getSizeInPixels(t, dc) ==
    [num |-> 2 * deltaLatitude(t.sector) * dc.pixelScale,
     den |-> distanceTo(<<2 * dc.eyePoint[1], 2 * dc.eyePoint[2], 2 * dc.eyePoint[3]>>,
                        centroid2(t.sector))]

\* size / divisions < threshold, where the threshold may be undefined: a
\* comparison of a number with undefined is false.
sizePerDivisionBelow(size, divisions, threshold) ==
    IF ~IsSome(threshold) THEN FALSE
    ELSE size.num < Val(threshold) * divisions * size.den

\* LatLonGraticuleGridTile.minCellSizePixels, a property of the constructor.
minCellSizePixels == 40

\* this.minCellSizePixels read on a tile instance: neither the instance nor the
\* prototype chain has the property, so the read gives undefined.
instanceMinCellSizePixels == None

\* GraticuleGridTile.prototype.isInView.  With dc.projectionLimits set, the
\* overlap test reads the undeclared variable vs.
baseIsInView(t, dc) ==
    IF ~intersectsFrustum(t.sector, dc.frustumInModelCoordinates)
    THEN [val |-> FALSE, err |-> NoError]
    ELSE IF IsSome(dc.projectionLimits)
    THEN [val |-> FALSE, err |-> "ReferenceError"]
    ELSE [val |-> TRUE, err |-> NoError]

\* LatLonGraticuleGridTile.prototype.isInView
isInView(t, dc) ==
    LET base == baseIsInView(t, dc)
    IN  IF base.err # NoError THEN base
        ELSE IF ~base.val THEN [val |-> FALSE, err |-> NoError]
        ELSE IF t.level # 0
                /\ sizePerDivisionBelow(getSizeInPixels(t, dc), t.divisions,
                                        Some(minCellSizePixels))
        THEN [val |-> FALSE, err |-> NoError]
        ELSE [val |-> TRUE, err |-> NoError]

graticuleLatLonLevel0 == "Graticule.LatLonLevel0"
graticuleLatLonLevel1 == "Graticule.LatLonLevel1"
graticuleLatLonLevel2 == "Graticule.LatLonLevel2"
graticuleLatLonLevel3 == "Graticule.LatLonLevel3"
graticuleLatLonLevel4 == "Graticule.LatLonLevel4"
graticuleLatLonLevel5 == "Graticule.LatLonLevel5"
Undefined == "undefined"

\* getLevel with its first comparison strict: resolution > 10.
getLevelAbove(num, den) ==
    IF num > 10 * den THEN graticuleLatLonLevel0
    ELSE IF num >= den THEN graticuleLatLonLevel1
    ELSE IF 10 * num >= den THEN graticuleLatLonLevel2
    ELSE IF 100 * num >= den THEN graticuleLatLonLevel3
    ELSE IF 1000 * num >= den THEN graticuleLatLonLevel4
    ELSE IF 10000 * num >= den THEN graticuleLatLonLevel5
    ELSE Undefined

\* LatLonGraticuleGridTile.prototype.getLevel at the resolution num / den degrees.
getLevel(num, den) ==
    IF num >= 10 * den THEN graticuleLatLonLevel0
    ELSE IF num >= den THEN graticuleLatLonLevel1
    ELSE IF 10 * num >= den THEN graticuleLatLonLevel2
    ELSE IF 100 * num >= den THEN graticuleLatLonLevel3
    ELSE IF 1000 * num >= den THEN graticuleLatLonLevel4
    ELSE IF 10000 * num >= den THEN graticuleLatLonLevel5
    ELSE Undefined

\* Depth of nested selectRenderables calls the engine's call stack holds; one
\* more call throws RangeError.
StackLimit == 4

\* The return value [selectedPathRenderables, selectedTextRenderables,
\* createdLabels] of selectRenderables, with the tile as the call left it.
\* created counts the calls of createRenderables the call made on its own tile.
SelectResult(t, paths, texts, labels, err) ==
    [tile |-> t, paths |-> paths, texts |-> texts, labels |-> labels, err |-> err,
     created |-> 0]

\* The level-0 pass of selectRenderables (lines 101 to 113): the bounding lines
\* in view and their label requests.
selectBoundary(t, dc) ==
    LET graticuleLevel == getLevel(deltaLatitude(t.sector), U)
        Chosen(ge) == /\ elementIsInView(ge, dc)
                      /\ ge.type \in {typeLineSouth, typeLineNorth, typeLineWest}
        sel == SelectSeq(Val(t.gridElements), Chosen)
    IN  [paths |-> [i \in 1..Len(sel) |-> <<sel[i].renderable, graticuleLevel>>],
         labels |-> [i \in 1..Len(sel) |->
                        [value |-> sel[i].value,
                         labelType |-> IF sel[i].type \in {typeLineNorth, typeLineSouth}
                                       THEN typeLatitudeLabel ELSE typeLongitudeLabel,
                         graticuleLevel |-> graticuleLevel,
                         deltaLatitude |-> deltaLatitude(t.sector),
                         labelOffset |-> dc.eyePosition]]]

\* The grid-element pass with getLevel called without its argument: no
\* comparison of undefined holds and getLevel returns undefined.
selectGridNoResolution(t, dc) ==
    LET graticuleLevel == Undefined
        Chosen(ge) == elementIsInView(ge, dc) /\ ge.type = typeLine
        sel == SelectSeq(Val(t.gridElements), Chosen)
    IN  [paths |-> [i \in 1..Len(sel) |-> <<sel[i].renderable, graticuleLevel>>],
         labels |-> [i \in 1..Len(sel) |->
                        [value |-> sel[i].value,
                         labelType |-> IF deltaLatitude(sel[i].sector) = 0
                                       THEN typeLatitudeLabel ELSE typeLongitudeLabel,
                         graticuleLevel |-> graticuleLevel,
                         deltaLatitude |-> deltaLatitude(t.sector),
                         labelOffset |-> dc.eyePosition]]]

\* The grid-element pass with the label type taken from the element's extent
\* in longitude: zero for a meridian.
selectGridByLongitude(t, dc) ==
    LET graticuleLevel == getLevel(deltaLatitude(t.sector), U * t.divisions)
        Chosen(ge) == elementIsInView(ge, dc) /\ ge.type = typeLine
        sel == SelectSeq(Val(t.gridElements), Chosen)
    IN  [paths |-> [i \in 1..Len(sel) |-> <<sel[i].renderable, graticuleLevel>>],
         labels |-> [i \in 1..Len(sel) |->
                        [value |-> sel[i].value,
                         labelType |-> IF deltaLongitude(sel[i].sector) = 0
                                       THEN typeLatitudeLabel ELSE typeLongitudeLabel,
                         graticuleLevel |-> graticuleLevel,
                         deltaLatitude |-> deltaLatitude(t.sector),
                         labelOffset |-> dc.eyePosition]]]

\* The grid-element pass that takes every element that is a line (isLine)
\* rather than the elements of type Line.
selectGridAllLines(t, dc) ==
    LET graticuleLevel == getLevel(deltaLatitude(t.sector), U * t.divisions)
        Chosen(ge) == elementIsInView(ge, dc) /\ isLine(ge)
        sel == SelectSeq(Val(t.gridElements), Chosen)
    IN  [paths |-> [i \in 1..Len(sel) |-> <<sel[i].renderable, graticuleLevel>>],
         labels |-> [i \in 1..Len(sel) |->
                        [value |-> sel[i].value,
                         labelType |-> IF deltaLatitude(sel[i].sector) = 0
                                       THEN typeLatitudeLabel ELSE typeLongitudeLabel,
                         graticuleLevel |-> graticuleLevel,
                         deltaLatitude |-> deltaLatitude(t.sector),
                         labelOffset |-> dc.eyePosition]]]

\* The grid-element pass of selectRenderables (lines 117 to 133).  Every element
\* of type Line is a line, so the isText branch is never taken.
selectGrid(t, dc) ==
    LET graticuleLevel == getLevel(deltaLatitude(t.sector), U * t.divisions)
        Chosen(ge) == elementIsInView(ge, dc) /\ ge.type = typeLine
        sel == SelectSeq(Val(t.gridElements), Chosen)
    IN  [paths |-> [i \in 1..Len(sel) |-> <<sel[i].renderable, graticuleLevel>>],
         labels |-> [i \in 1..Len(sel) |->
                        [value |-> sel[i].value,
                         labelType |-> IF deltaLatitude(sel[i].sector) = 0
                                       THEN typeLatitudeLabel ELSE typeLongitudeLabel,
                         graticuleLevel |-> graticuleLevel,
                         deltaLatitude |-> deltaLatitude(t.sector),
                         labelOffset |-> dc.eyePosition]]]

RECURSIVE selectRenderables(_, _, _)

\* The exception of a call, with the tile as the call left it.
Thrown(t, err) == SelectResult(t, <<>>, <<>>, <<>>, err)

\* The turn without its else branch: a subtile not in view is left as it is.
visitSubTileKeeping(gt, dc, depth, v) ==
    IF v.err # NoError THEN Thrown(gt, v.err)
    ELSE IF v.val THEN selectRenderables(gt, Some(dc), depth + 1)
    ELSE Thrown(gt, NoError)

\* One turn of the loop over this.subTiles (lines 141 and 142), v being what
\* gt.isInView(dc) returned: a subtile in view is selected and what it returns
\* is dropped, any other is cleared.
visitSubTileInView(gt, dc, depth, v) ==
    IF v.err # NoError THEN Thrown(gt, v.err)
    ELSE IF v.val THEN selectRenderables(gt, Some(dc), depth + 1)
    ELSE Thrown(clearRenderables(gt), NoError)

visitSubTile(gt, dc, depth) == visitSubTileInView(gt, dc, depth, isInView(gt, dc))

\* A for-of loop over `before` whose turn i leaves turn[i].tile: the turns are
\* taken in order up to the first that throws, and the elements after it are
\* left as they were.
loopOutcome(before, turn) ==
    LET thrown == {i \in 1..Len(turn) : turn[i].err # NoError}
        last == IF thrown = {} THEN Len(before)
                ELSE CHOOSE i \in thrown : \A j \in thrown : i <= j
    IN  [subs |-> [i \in 1..Len(before) |-> IF i <= last THEN turn[i].tile ELSE before[i]],
         err |-> IF thrown = {} THEN NoError ELSE turn[last].err]

\* The loop over this.subTiles of selectRenderables (lines 140 to 143).
visitSubTiles(subs, dc, depth) ==
    loopOutcome(subs, [i \in 1..Len(subs) |-> visitSubTile(subs[i], dc, depth)])

\* The return of selectRenderables after the loop over the subtiles, v being
\* the loop's outcome (line 145, or the exception the loop threw).
returnVisited(t, sel, v) ==
    SelectResult([t EXCEPT !.subTiles = Some(v.subs)], sel.paths, <<>>, sel.labels, v.err)

\* Lines 140 to 145 of selectRenderables, on a tile whose subTiles are present.
selectSubTiles(t, dc, sel, depth) ==
    returnVisited(t, sel, visitSubTiles(Val(t.subTiles), dc, depth))

\* Lines 135 to 145 of selectRenderables, sel being the paths and label requests
\* selected so far.
descend(t, dc, sel, depth) ==
    IF sizePerDivisionBelow(getSizeInPixels(t, dc), t.divisions, Some(minCellSizePixels * 2))
    THEN SelectResult(t, sel.paths, <<>>, sel.labels, NoError)
    ELSE selectSubTiles(IF IsSome(t.subTiles) THEN t ELSE createSubTiles(t), dc, sel, depth)

\* What the two passes selected, in the order pushed.
Joined(b, g) == [paths |-> b.paths \o g.paths, labels |-> b.labels \o g.labels]

NothingSelected == [paths |-> <<>>, labels |-> <<>>]

\* Lines 117 to 145 of selectRenderables, b being what the level-0 pass selected.
selectBelow(t, dc, b, depth) == descend(t, dc, Joined(b, selectGrid(t, dc)), depth)

\* Lines 99 to 145 of selectRenderables, on a tile whose gridElements are
\* present: the level-0 pass and its return (line 114), which compares with
\* this.minCellSizePixels.
selectElements(t, dc, depth) ==
    IF t.level # 0 THEN selectBelow(t, dc, NothingSelected, depth)
    ELSE IF sizePerDivisionBelow(getSizeInPixels(t, dc), t.divisions,
                                 instanceMinCellSizePixels)
    THEN SelectResult(t, selectBoundary(t, dc).paths, <<>>,
                      selectBoundary(t, dc).labels, NoError)
    ELSE selectBelow(t, dc, selectBoundary(t, dc), depth)

\* Lines 88 to 90 without the test: createRenderables is called every time.
ensureRenderablesAlways(t) == [tile |-> createRenderables(t), created |-> 1]

\* Lines 88 to 90 of selectRenderables: the tile they leave and the number of
\* calls of createRenderables they make.
ensureRenderables(t) ==
    IF IsSome(t.gridElements) THEN [tile |-> t, created |-> 0]
    ELSE [tile |-> createRenderables(t), created |-> 1]

\* Lines 92 to 145 of selectRenderables, e being what lines 88 to 90 left; dco
\* is None when the caller passes no argument, and then computeLabelOffset
\* reads dc.eyePosition of undefined.
selectEnsured(e, dco, depth) ==
    [(IF ~IsSome(dco) THEN Thrown(e.tile, "TypeError")
      ELSE selectElements(e.tile, Val(dco), depth))
     EXCEPT !.created = e.created]

\* LatLonGraticuleGridTile.prototype.selectRenderables(dc), called at nesting
\* depth `depth`.
selectRenderables(t, dco, depth) ==
    IF depth > StackLimit THEN Thrown(t, "RangeError")
    ELSE selectEnsured(ensureRenderables(t), dco, depth)

-----------------------------------------------------------------------------
(* Draw contexts                                                            *)

\* A globe with its projection; projectionLimits is the visible region (None
\* when the projection has no limits).
Globe(id, limits, projectionId, is2D) ==
    [id |-> id, projectionLimits |-> limits,
     projection |-> [id |-> projectionId, is2D |-> is2D]]

\* The fields of a DrawContext the graticule reads.  eyePosition is the
\* geographic position of eyePoint.
DrawContext(globe, dcLimits, frustum, eyePoint, pixelScale, exaggeration, heading, tilt, fieldOfView) ==
    [globe |-> globe,
     projectionLimits |-> dcLimits,
     frustumInModelCoordinates |-> frustum,
     eyePoint |-> eyePoint,
     eyePosition |-> [latitude |-> eyePoint[1], longitude |-> eyePoint[2],
                      altitude |-> eyePoint[3]],
     pixelScale |-> pixelScale,
     verticalExaggeration |-> exaggeration,
     navigator |-> [heading |-> heading, tilt |-> tilt, fieldOfView |-> fieldOfView]]

FullSphere == Sector(-90 * U, 90 * U, -180 * U, 180 * U)

\* The 10-degree cell with its south-west corner at latitude lat and longitude
\* lon (degrees).
Cell(lat, lon) == Sector(lat * U, (lat + 10) * U, lon * U, (lon + 10) * U)

\* A frustum footprint strictly inside Cell(lat, lon).
Inside(lat, lon) ==
    Sector(lat * U + 10, (lat + 10) * U - 10, lon * U + 10, (lon + 10) * U - 10)

Earth == Globe("earth", Some(FullSphere), "wgs84", FALSE)

\* The eye above the centre of Cell(0, 0) at the given altitude, looking at the
\* footprint `frustum`.
Looking(frustum, altitude, pixelScale) ==
    DrawContext(Earth, None, frustum, <<5 * U, 5 * U, altitude>>, pixelScale, 1, 0, 0, 45)

\* The draw contexts the tile operations are called with.
TileContexts ==
    { Looking(Inside(0, 0), 100, 100),   \* Cell(0, 0) is 60 pixels high
      Looking(Inside(0, 0), 20, 100),    \* 300 pixels
      Looking(Inside(0, 0), 10, 100),    \* 600 pixels
      Looking(Inside(0, 0), 5, 100),     \* 1200 pixels
      Looking(Inside(10, 10), 5, 600),   \* 7200 pixels, looking at the next cell
      Looking(Inside(40, 40), 10, 100),  \* looking away
      [Looking(Inside(0, 0), 10, 100) EXCEPT !.globe.projectionLimits = None],
      [Looking(Inside(0, 0), 10, 100) EXCEPT !.projectionLimits = Some(FullSphere)],
      [Looking(Inside(0, 0), 100, 100) EXCEPT !.projectionLimits = Some(FullSphere)] }

\* new LatLonGraticuleGridTile(sector, divisions, level)
LatLonGraticuleGridTile(sector, divisions, level) ==
    GraticuleGridTile(sector, divisions, level)

\* The tiles a caller constructs: a top-level cell, a cell at the pole, and a
\* tile of level 1 in each.
ConstructedTiles ==
    { LatLonGraticuleGridTile(Cell(0, 0), 10, 0),
      LatLonGraticuleGridTile(Cell(80, 0), 10, 0),
      LatLonGraticuleGridTile(Cell(0, 0), 6, 1),
      LatLonGraticuleGridTile(Cell(80, 0), 6, 1) }

-----------------------------------------------------------------------------
(* Calls on a tile                                                          *)

\* What the last call on the tile returned.  args holds the arguments that are
\* no draw context; out holds what the call returned that is neither a boolean
\* nor the three lists of selectRenderables, or the objects it left behind.
Returned(op, dco, val, paths, texts, labels, err) ==
    [op |-> op, dc |-> dco, val |-> val,
     paths |-> paths, texts |-> texts, labels |-> labels, err |-> err,
     args |-> <<>>, out |-> <<>>]

NothingReturned == Returned("", None, FALSE, <<>>, <<>>, <<>>, NoError)

\* tile.selectRenderables(dc)
TileSelectRenderables(dc) ==
    LET r == selectRenderables(tile, Some(dc), 1)
    IN  /\ tile' = r.tile
        /\ ret' = [Returned("selectRenderables", Some(dc), FALSE,
                            r.paths, r.texts, r.labels, r.err)
                      EXCEPT !.out = <<r.created>>]
        /\ UNCHANGED <<layer, frame, host>>

\* tile.isInView(dc)
TileIsInView(dc) ==
    LET r == isInView(tile, dc)
    IN  /\ ret' = Returned("isInView", Some(dc), r.val, <<>>, <<>>, <<>>, r.err)
        /\ UNCHANGED <<tile, layer, frame, host>>

\* GraticuleGridTile.prototype.isInView.call(tile, dc)
TileBaseIsInView(dc) ==
    LET r == baseIsInView(tile, dc)
    IN  /\ ret' = Returned("GraticuleGridTile.isInView", Some(dc), r.val,
                           <<>>, <<>>, <<>>, r.err)
        /\ UNCHANGED <<tile, layer, frame, host>>

\* tile.clearRenderables(); ret.out holds the tiles that were below the tile, as
\* the call left them.
TileClearRenderables ==
    /\ tile' = clearRenderables(tile)
    /\ ret' = [Returned("clearRenderables", None, FALSE, <<>>, <<>>, <<>>, NoError)
                   EXCEPT !.out = clearedBelow(tile)]
    /\ UNCHANGED <<layer, frame, host>>

\* tile.createRenderables()
TileCreateRenderables ==
    /\ tile' = createRenderables(tile)
    /\ ret' = Returned("createRenderables", None, FALSE, <<>>, <<>>, <<>>, NoError)
    /\ UNCHANGED <<layer, frame, host>>

\* tile.createSubTiles()
TileCreateSubTiles ==
    /\ tile' = createSubTiles(tile)
    /\ ret' = Returned("createSubTiles", None, FALSE, <<>>, <<>>, <<>>, NoError)
    /\ UNCHANGED <<layer, frame, host>>

-----------------------------------------------------------------------------
(* GraticuleSupport and GraticuleRenderingParams                            *)

\* new GraticuleRenderingParams() with the colours initRenderingParams sets.
GraticuleRenderingParams(colour) ==
    [drawLines |-> TRUE, lineColor |-> colour, lineWidth |-> 1,
     lineStyle |-> "LineStyleSolid", drawLabels |-> TRUE, labelColor |-> colour]

\* LatLonGraticuleLayer.prototype.initRenderingParams: the map _namedParams.
initRenderingParams ==
    (graticuleLatLonLevel0 :> GraticuleRenderingParams("white"))
    @@ (graticuleLatLonLevel1 :> GraticuleRenderingParams("green"))
    @@ (graticuleLatLonLevel2 :> GraticuleRenderingParams("blue"))
    @@ (graticuleLatLonLevel3 :> GraticuleRenderingParams("cyan"))
    @@ (graticuleLatLonLevel4 :> GraticuleRenderingParams("cyan"))
    @@ (graticuleLatLonLevel5 :> GraticuleRenderingParams("aquamarine"))

\* The newShapeAttributes object GraticuleSupport.prototype.createPathShapeAttributes
\* builds: outline colour with its alpha times opacity, line width, stipple.
newShapeAttributes(renderingParams, opacity) ==
    LET baseFactor == IF renderingParams.lineWidth = 0 THEN 1 ELSE renderingParams.lineWidth
    IN  [drawInterior |-> FALSE, drawOutline |-> TRUE,
         outlineColor |-> renderingParams.lineColor, opacity |-> opacity,
         lineWidth |-> renderingParams.lineWidth,
         outlineStipplePattern |-> 43690,
         outlineStippleFactor |->
             CASE renderingParams.lineStyle = "LineStyleSolid" -> 0
               [] renderingParams.lineStyle = "LineStyleDashed" -> 3 * baseFactor
               [] renderingParams.lineStyle = "LineStyleDotted" -> baseFactor
               [] OTHER -> 0]

\* GraticuleSupport.prototype.createPathShapeAttributes: the function builds
\* newShapeAttributes and ends without a return statement.
createPathShapeAttributes(renderingParams, opacity) == None

\* GraticuleSupport.prototype.applyPathRenderingParams on the map
\* _namedShapeAttributes (a key maps to None when it holds undefined).
applyPathRenderingParams(namedShapeAttributes, paramKey, renderingParams, opacity) ==
    IF paramKey \in DOMAIN namedShapeAttributes /\ IsSome(namedShapeAttributes[paramKey])
    THEN namedShapeAttributes
    ELSE (paramKey :> createPathShapeAttributes(renderingParams, opacity))
         @@ namedShapeAttributes

RECURSIVE renderPathsUngated(_, _, _)
RECURSIVE renderPaths(_, _, _)

\* Lines 145 and 146 of render for the path renderable i: the shape attributes
\* of its key are applied (path.attributes = shapeAttributes) and the path is
\* rendered; rest is what the turns after it leave.
renderedPath(l, i, rest) ==
    [layer |-> rest.layer,
     lines |-> <<[path |-> l.pathRenderables[i][1],
                  paramKey |-> l.pathRenderables[i][2],
                  attributes |-> l.namedShapeAttributes[l.pathRenderables[i][2]]]>>
               \o rest.lines]

\* The first loop of render without the test of drawLines.
renderPathsUngated(l, i, opacity) ==
    IF i > Len(l.pathRenderables) THEN [layer |-> l, lines |-> <<>>]
    ELSE LET paramKey == l.pathRenderables[i][2]
         IN  IF paramKey \in DOMAIN l.namedParams
             THEN renderedPath(
                      [l EXCEPT !.namedShapeAttributes =
                          applyPathRenderingParams(l.namedShapeAttributes, paramKey,
                                                   l.namedParams[paramKey], opacity)],
                      i,
                      renderPathsUngated(
                          [l EXCEPT !.namedShapeAttributes =
                              applyPathRenderingParams(l.namedShapeAttributes, paramKey,
                                                       l.namedParams[paramKey], opacity)],
                          i + 1, opacity))
             ELSE renderPathsUngated(l, i + 1, opacity)

\* The first loop of GraticuleSupport.prototype.render (lines 139 to 147), from
\* the path renderable i on: the paths whose params are registered with
\* drawLines get their shape attributes applied and are rendered, in turn.
\* lines holds the paths rendered, each with the attributes it was given.
renderPaths(l, i, opacity) ==
    IF i > Len(l.pathRenderables) THEN [layer |-> l, lines |-> <<>>]
    ELSE LET paramKey == l.pathRenderables[i][2]
         IN  IF paramKey \in DOMAIN l.namedParams /\ l.namedParams[paramKey].drawLines
             THEN renderedPath(
                      [l EXCEPT !.namedShapeAttributes =
                          applyPathRenderingParams(l.namedShapeAttributes, paramKey,
                                                   l.namedParams[paramKey], opacity)],
                      i,
                      renderPaths(
                          [l EXCEPT !.namedShapeAttributes =
                              applyPathRenderingParams(l.namedShapeAttributes, paramKey,
                                                       l.namedParams[paramKey], opacity)],
                          i + 1, opacity))
             ELSE renderPaths(l, i + 1, opacity)

\* GraticuleSupport.prototype.applyTextRenderingParams: the TextAttributes the
\* text is given.
applyTextRenderingParams(renderingParams, opacity) ==
    [color |-> renderingParams.labelColor, opacity |-> opacity]

\* The second loop of render (lines 149 to 157): the texts whose params are
\* registered with drawLabels are given their attributes and rendered.
renderTexts(l, opacity) ==
    LET Drawn(x) == x[2] \in DOMAIN l.namedParams /\ l.namedParams[x[2]].drawLabels
        sel == SelectSeq(l.textRenderables, Drawn)
    IN  [i \in 1..Len(sel) |->
            [text |-> sel[i][1], paramKey |-> sel[i][2],
             attributes |-> applyTextRenderingParams(l.namedParams[sel[i][2]], opacity)]]

\* What render leaves and draws, p being the outcome of the first loop.
renderedTexts(p, opacity) ==
    [layer |-> p.layer, lines |-> p.lines, labels |-> renderTexts(p.layer, opacity)]

\* GraticuleSupport.prototype.render(dc, opacity)
render(l, dc, opacity) == renderedTexts(renderPaths(l, 1, opacity), opacity)

\* GraticuleSupport.prototype.setRenderingParams: this._namedParams.set.
setRenderingParams(l, paramKey, renderingParams) ==
    [l EXCEPT !.namedParams = (paramKey :> renderingParams) @@ @]

\* GraticuleSupport.prototype.removeAllRenderables
removeAllRenderables(l) == [l EXCEPT !.pathRenderables = <<>>, !.textRenderables = <<>>]

\* GraticuleSupport.prototype.addPathRenderable
addPathRenderable(l, path, paramKey) ==
    [l EXCEPT !.pathRenderables = Append(@, <<path, paramKey>>)]

\* GraticuleSupport.prototype.addTextRenderable
addTextRenderable(l, text, paramKey) ==
    [l EXCEPT !.textRenderables = Append(@, <<text, paramKey>>)]

-----------------------------------------------------------------------------
(* The layer                                                                *)

\* new LatLonGraticuleLayer(): the fields GraticuleLayer and
\* LatLonGraticuleLayer set, and the maps and lists of its GraticuleSupport.
\* gridTiles is an empty array: gridRows is the set of its rows that hold an
\* array, gridTiles maps the cells <<row, col>> that hold a tile.
LatLonGraticuleLayer ==
    [gridRows |-> {},
     gridTiles |-> [c \in {} |-> None],
     latitudeLabels |-> <<>>,
     longitudeLabels |-> <<>>,
     globe |-> None,
     lastEyePoint |-> None,
     lastHeading |-> 0,
     lastTilt |-> 0,
     lastFOV |-> 0,
     lastVerticalExaggeration |-> 1,
     lastProjection |-> None,
     namedParams |-> initRenderingParams,
     namedShapeAttributes |-> [k \in {} |-> None],
     pathRenderables |-> <<>>,
     textRenderables |-> <<>>]

\* needsToUpdate without the test of the projection (line 440).
needsToUpdateSameProjection(l, dc) ==
    IF ~IsSome(l.lastEyePoint) THEN TRUE
    ELSE
    LET last == Val(l.lastEyePoint)
        surfacePoint == <<last[1], last[2], 0>>
        altitudeAboveGround == distanceTo(dc.eyePoint, surfacePoint)
    IN  IF 100 * distanceTo(dc.eyePoint, last) > altitudeAboveGround THEN TRUE
        ELSE IF l.lastVerticalExaggeration # dc.verticalExaggeration THEN TRUE
        ELSE IF Abs(l.lastHeading - dc.navigator.heading) > 1 THEN TRUE
        ELSE IF Abs(l.lastTilt - dc.navigator.tilt) > 1 THEN TRUE
        ELSE IF Abs(l.lastFOV - dc.navigator.fieldOfView) > 1 THEN TRUE
        ELSE IF l.globe # Some(dc.globe.id) THEN TRUE
        ELSE FALSE

\* needsToUpdate with heading, tilt and field of view compared by >= 1.
needsToUpdateFromOne(l, dc) ==
    IF ~IsSome(l.lastEyePoint) THEN TRUE
    ELSE
    LET last == Val(l.lastEyePoint)
        surfacePoint == <<last[1], last[2], 0>>
        altitudeAboveGround == distanceTo(dc.eyePoint, surfacePoint)
    IN  IF 100 * distanceTo(dc.eyePoint, last) > altitudeAboveGround THEN TRUE
        ELSE IF l.lastVerticalExaggeration # dc.verticalExaggeration THEN TRUE
        ELSE IF Abs(l.lastHeading - dc.navigator.heading) >= 1 THEN TRUE
        ELSE IF Abs(l.lastTilt - dc.navigator.tilt) >= 1 THEN TRUE
        ELSE IF Abs(l.lastFOV - dc.navigator.fieldOfView) >= 1 THEN TRUE
        ELSE IF l.globe # Some(dc.globe.id) THEN TRUE
        ELSE IF dc.globe.projection.is2D
                /\ Some(dc.globe.projection.id) # l.lastProjection THEN TRUE
        ELSE FALSE

\* needsToUpdate with the heading compared by > 2.
needsToUpdateBeyondTwo(l, dc) ==
    IF ~IsSome(l.lastEyePoint) THEN TRUE
    ELSE
    LET last == Val(l.lastEyePoint)
        surfacePoint == <<last[1], last[2], 0>>
        altitudeAboveGround == distanceTo(dc.eyePoint, surfacePoint)
    IN  IF 100 * distanceTo(dc.eyePoint, last) > altitudeAboveGround THEN TRUE
        ELSE IF l.lastVerticalExaggeration # dc.verticalExaggeration THEN TRUE
        ELSE IF Abs(l.lastHeading - dc.navigator.heading) > 2 THEN TRUE
        ELSE IF Abs(l.lastTilt - dc.navigator.tilt) > 1 THEN TRUE
        ELSE IF Abs(l.lastFOV - dc.navigator.fieldOfView) > 1 THEN TRUE
        ELSE IF l.globe # Some(dc.globe.id) THEN TRUE
        ELSE IF dc.globe.projection.is2D
                /\ Some(dc.globe.projection.id) # l.lastProjection THEN TRUE
        ELSE FALSE

\* GraticuleLayer.prototype.needsToUpdate.  The surface point is the ground
\* point below the last eye point.
needsToUpdate(l, dc) ==
    IF ~IsSome(l.lastEyePoint) THEN TRUE
    ELSE
    LET last == Val(l.lastEyePoint)
        surfacePoint == <<last[1], last[2], 0>>
        altitudeAboveGround == distanceTo(dc.eyePoint, surfacePoint)
    IN  IF 100 * distanceTo(dc.eyePoint, last) > altitudeAboveGround THEN TRUE
        ELSE IF l.lastVerticalExaggeration # dc.verticalExaggeration THEN TRUE
        ELSE IF Abs(l.lastHeading - dc.navigator.heading) > 1 THEN TRUE
        ELSE IF Abs(l.lastTilt - dc.navigator.tilt) > 1 THEN TRUE
        ELSE IF Abs(l.lastFOV - dc.navigator.fieldOfView) > 1 THEN TRUE
        ELSE IF l.globe # Some(dc.globe.id) THEN TRUE
        ELSE IF dc.globe.projection.is2D
                /\ Some(dc.globe.projection.id) # l.lastProjection THEN TRUE
        ELSE FALSE

\* clear without the reset of the two label arrays (lines 459 and 460).
clearKeepingLabels(l, dc) ==
    [removeAllRenderables(l) EXCEPT
        !.globe = Some(dc.globe.id),
        !.lastEyePoint = Some(dc.eyePoint),
        !.lastFOV = dc.navigator.fieldOfView,
        !.lastHeading = dc.navigator.heading,
        !.lastTilt = dc.navigator.tilt,
        !.lastVerticalExaggeration = dc.verticalExaggeration,
        !.lastProjection = Some(dc.globe.projection.id)]

\* clear that also empties gridTiles.
clearDroppingTiles(l, dc) ==
    [removeAllRenderables(l) EXCEPT
        !.gridTiles = [c \in {} |-> None],
        !.globe = Some(dc.globe.id),
        !.lastEyePoint = Some(dc.eyePoint),
        !.lastFOV = dc.navigator.fieldOfView,
        !.lastHeading = dc.navigator.heading,
        !.lastTilt = dc.navigator.tilt,
        !.lastVerticalExaggeration = dc.verticalExaggeration,
        !.lastProjection = Some(dc.globe.projection.id),
        !.latitudeLabels = <<>>,
        !.longitudeLabels = <<>>]

\* clear without the assignment of lastHeading (line 454).
clearForgettingHeading(l, dc) ==
    [removeAllRenderables(l) EXCEPT
        !.globe = Some(dc.globe.id),
        !.lastEyePoint = Some(dc.eyePoint),
        !.lastFOV = dc.navigator.fieldOfView,
        !.lastTilt = dc.navigator.tilt,
        !.lastVerticalExaggeration = dc.verticalExaggeration,
        !.lastProjection = Some(dc.globe.projection.id),
        !.latitudeLabels = <<>>,
        !.longitudeLabels = <<>>]

\* clear without the call of removeAllRenderables (line 450).
clearKeepingRenderables(l, dc) ==
    [l EXCEPT
        !.globe = Some(dc.globe.id),
        !.lastEyePoint = Some(dc.eyePoint),
        !.lastFOV = dc.navigator.fieldOfView,
        !.lastHeading = dc.navigator.heading,
        !.lastTilt = dc.navigator.tilt,
        !.lastVerticalExaggeration = dc.verticalExaggeration,
        !.lastProjection = Some(dc.globe.projection.id),
        !.latitudeLabels = <<>>,
        !.longitudeLabels = <<>>]

\* GraticuleLayer.prototype.clear.  Globe and projection are held by reference:
\* the snapshot keeps their identities.
clear(l, dc) ==
    [removeAllRenderables(l) EXCEPT
        !.globe = Some(dc.globe.id),
        !.lastEyePoint = Some(dc.eyePoint),
        !.lastFOV = dc.navigator.fieldOfView,
        !.lastHeading = dc.navigator.heading,
        !.lastTilt = dc.navigator.tilt,
        !.lastVerticalExaggeration = dc.verticalExaggeration,
        !.lastProjection = Some(dc.globe.projection.id),
        !.latitudeLabels = <<>>,
        !.longitudeLabels = <<>>]

Min(a, b) == IF a < b THEN a ELSE b

\* getGridColumn without Math.min.
getGridColumnUnclamped(lon) == (lon + 180 * U) \div (10 * U)

\* LatLonGraticuleLayer.prototype.getGridColumn
getGridColumn(lon) == Min((lon + 180 * U) \div (10 * U), 35)

\* LatLonGraticuleLayer.prototype.getGridRow
getGridRow(lat) == Min((lat + 90 * U) \div (10 * U), 17)

\* LatLonGraticuleLayer.prototype.getGridRectangleForSector
getGridRectangleForSector(sector) ==
    LET x1 == getGridColumn(sector.minLongitude)
        x2 == getGridColumn(sector.maxLongitude)
        y1 == getGridRow(sector.minLatitude)
        y2 == getGridRow(sector.maxLatitude)
    IN  [x |-> x1, y |-> y1, width |-> x2 - x1, height |-> y2 - y1]

\* LatLonGraticuleLayer.prototype.getGridSector
getGridSector(row, col) ==
    LET minLat == -90 * U + row * 10 * U
        maxLat == minLat + 10 * U
        minLon == (-180 * col * 10) * U
        maxLon == minLon + 10 * U
    IN  Sector(minLat, maxLat, minLon, maxLon)

\* Lines 110 to 114 without the else branch: a tile not in view is left as it is.
listOrKeep(t, v) ==
    IF v.err # NoError THEN [tile |-> Some(t), visible |-> FALSE, err |-> v.err]
    ELSE IF v.val THEN [tile |-> Some(t), visible |-> TRUE, err |-> NoError]
    ELSE [tile |-> Some(t), visible |-> FALSE, err |-> NoError]

\* Lines 110 to 114 of getVisibleTiles for the tile t of one cell, v being what
\* t.isInView(dc) returned: a tile in view is listed, any other is cleared.
listOrClear(t, v) ==
    IF v.err # NoError THEN [tile |-> Some(t), visible |-> FALSE, err |-> v.err]
    ELSE IF v.val THEN [tile |-> Some(t), visible |-> TRUE, err |-> NoError]
    ELSE [tile |-> Some(clearRenderables(t)), visible |-> FALSE, err |-> NoError]

\* Lines 106 to 108 of getVisibleTiles: the tile of the cell, made on first use.
tileAt(l, row, col) ==
    IF <<row, col>> \in DOMAIN l.gridTiles THEN l.gridTiles[<<row, col>>]
    ELSE LatLonGraticuleGridTile(getGridSector(row, col), 10, 0)

\* The body of the two loops of getVisibleTiles for one cell (lines 106 to 114).
\* Reading gridTiles[row][col] throws when gridTiles[row] is undefined.
visitCell(l, row, col, dc) ==
    IF row \notin l.gridRows THEN [tile |-> None, visible |-> FALSE, err |-> "TypeError"]
    ELSE listOrClear(tileAt(l, row, col), isInView(tileAt(l, row, col), dc))

\* The cells of a grid rectangle in the order the two loops visit them (lines
\* 104 and 105: row by row, both bounds included).
cellsOf(r) ==
    IF r.height < 0 \/ r.width < 0 THEN <<>>
    ELSE [i \in 1..((r.height + 1) * (r.width + 1)) |->
             <<r.y + ((i - 1) \div (r.width + 1)), r.x + ((i - 1) % (r.width + 1))>>]

\* What the loops of getVisibleTiles leave, turn[i] being the outcome of the
\* visit of cell[i]: the cells are visited up to the first that throws.
\* tileList holds the cells of the tiles in view, in the order visited.
visitedCells(l, cell, turn) ==
    LET thrown == {i \in 1..Len(turn) : turn[i].err # NoError}
        last == IF thrown = {} THEN Len(cell)
                ELSE CHOOSE i \in thrown : \A j \in thrown : i <= j
        stored == {i \in 1..last : IsSome(turn[i].tile)}
        InView(i) == i <= last /\ turn[i].visible
        seen == SelectSeq([i \in 1..Len(cell) |-> i], InView)
    IN  [layer |-> [l EXCEPT !.gridTiles =
                       [c \in DOMAIN l.gridTiles \cup {cell[i] : i \in stored} |->
                           IF \E i \in stored : cell[i] = c
                           THEN Val(turn[CHOOSE i \in stored : cell[i] = c].tile)
                           ELSE l.gridTiles[c]]],
         tileList |-> [k \in 1..Len(seen) |-> cell[seen[k]]],
         err |-> IF thrown = {} THEN NoError ELSE turn[last].err]

\* The two loops of getVisibleTiles over the cells `cell`.
visitCells(l, cell, dc) ==
    visitedCells(l, cell,
                 [i \in 1..Len(cell) |-> visitCell(l, cell[i][1], cell[i][2], dc)])

\* getVisibleTiles that takes the cell at latitude 0, longitude 0 for the
\* visible sector when the globe has no projection limits.
getVisibleTilesByDefault(l, dc) ==
    visitCells(l, cellsOf(getGridRectangleForSector(
                              IF IsSome(dc.globe.projectionLimits)
                              THEN Val(dc.globe.projectionLimits) ELSE Cell(0, 0))),
               dc)

\* LatLonGraticuleLayer.prototype.getVisibleTiles
getVisibleTiles(l, dc) ==
    IF ~IsSome(dc.globe.projectionLimits)
    THEN [layer |-> l, tileList |-> <<>>, err |-> NoError]
    ELSE visitCells(l, cellsOf(getGridRectangleForSector(Val(dc.globe.projectionLimits))),
                    dc)

\* GraticuleLayer.prototype.makeAngleLabel for the layer's angleFormat,
\* DegreesMinutesSeconds: the text of the angle with the digits the resolution
\* (in degrees, num / den) asks for.
makeAngleLabel(value, num, den) ==
    IF num >= den THEN [angle |-> value, format |-> "DecimalDegrees0"]
    ELSE [angle |-> value, format |-> "DMS"]

\* array.contains(value) on a label array: Array.prototype has no method
\* `contains` unless the page has added one (host.arrayContains); the call on
\* the missing method throws TypeError.
contains(array, value) ==
    IF host.arrayContains
    THEN [val |-> \E i \in 1..Len(array) : array[i] = value, err |-> NoError]
    ELSE [val |-> FALSE, err |-> "TypeError"]

\* new GeographicText(text, new Vec3(x, y, 0))
GeographicText(text, x, y) ==
    [kind |-> "GeographicText", text |-> text, position |-> <<x, y, 0>>]

\* The branch of addLabel for one label type (lines 371 to 373 or 374 to 376),
\* c being what this.latitudeLabels.contains(value) returned: an unseen value is
\* pushed on labels[field] and its text is made.
pushLabel(l, c, field, value, text) ==
    IF c.err # NoError THEN [layer |-> l, err |-> c.err]
    ELSE IF c.val THEN [layer |-> l, err |-> NoError]
    ELSE [layer |-> [l EXCEPT ![field] = Append(@, value)], text |-> Some(text),
          err |-> NoError]

\* Line 379 of addLabel: the text, when one was made, is added.
addMade(p, graticuleLevel) ==
    IF p.err # NoError \/ "text" \notin DOMAIN p THEN [layer |-> p.layer, err |-> p.err]
    ELSE [layer |-> addTextRenderable(p.layer, Val(p.text), graticuleLevel),
          err |-> NoError]

\* GraticuleLayer.prototype.addLabel; the resolution is deltaLat / U degrees.
\* Both branches test this.latitudeLabels.
addLabel(l, value, labelType, graticuleLevel, deltaLat, labelOffset) ==
    IF labelType = typeLatitudeLabel
    THEN addMade(pushLabel(l, contains(l.latitudeLabels, value), "latitudeLabels", value,
                           GeographicText(makeAngleLabel(value, deltaLat, U),
                                          value, labelOffset.longitude)),
                 graticuleLevel)
    ELSE IF labelType = typeLongitudeLabel
    THEN addMade(pushLabel(l, contains(l.latitudeLabels, value), "longitudeLabels", value,
                           GeographicText(makeAngleLabel(value, deltaLat, U),
                                          labelOffset.latitude, value)),
                 graticuleLevel)
    ELSE [layer |-> l, err |-> NoError]

RECURSIVE addSelected(_, _, _, _, _)

\* Line 357 of selectRenderables, a being what addLabel returned.
addedLabel(a, r, i, j, k) ==
    IF a.err # NoError THEN a ELSE addSelected(a.layer, r, i, j, k + 1)

\* The three loops of GraticuleLayer.prototype.selectRenderables over what one
\* tile returned (lines 348 to 358), from path i, text j and label k on.
addSelected(l, r, i, j, k) ==
    IF i <= Len(r.paths)
    THEN addSelected(addPathRenderable(l, r.paths[i][1], r.paths[i][2]), r, i + 1, j, k)
    ELSE IF j <= Len(r.texts)
    THEN addSelected(addTextRenderable(l, r.texts[j][1], r.texts[j][2]), r, i, j + 1, k)
    ELSE IF k <= Len(r.labels)
    THEN addedLabel(addLabel(l, r.labels[k].value, r.labels[k].labelType,
                             r.labels[k].graticuleLevel, r.labels[k].deltaLatitude,
                             r.labels[k].labelOffset),
                    r, i, j, k)
    ELSE [layer |-> l, err |-> NoError]

RECURSIVE selectVisibleTiles(_, _, _)

\* After the three loops for tile i of tileList: on to the next tile.
nextVisibleTile(a, tileList, i) ==
    IF a.err # NoError THEN a ELSE selectVisibleTiles(a.layer, tileList, i + 1)

\* Lines 346 to 358 for tile i of tileList, r being what its selectRenderables
\* returned and left of the tile.
addReturned(l, tileList, i, r) ==
    IF r.err # NoError
    THEN [layer |-> [l EXCEPT !.gridTiles[tileList[i]] = r.tile], err |-> r.err]
    ELSE nextVisibleTile(
             addSelected([l EXCEPT !.gridTiles[tileList[i]] = r.tile], r, 1, 1, 1),
             tileList, i)

\* The loop of GraticuleLayer.prototype.selectRenderables over the visible
\* tiles, from tile i of tileList on.  The tile is selected with no argument:
\* tile.selectRenderables().
selectVisibleTiles(l, tileList, i) ==
    IF i > Len(tileList) THEN [layer |-> l, err |-> NoError]
    ELSE addReturned(l, tileList, i, selectRenderables(l.gridTiles[tileList[i]], None, 1))

\* Lines 345 to 359 of GraticuleLayer.prototype.selectRenderables, v being what
\* getVisibleTiles returned.
selectListed(v) ==
    IF v.err # NoError THEN [layer |-> v.layer, err |-> v.err]
    ELSE selectVisibleTiles(v.layer, v.tileList, 1)

\* GraticuleLayer.prototype.selectRenderables
layerSelectRenderables(l, dc) == selectListed(getVisibleTiles(l, dc))

\* Line 419 of doRender after an update, s being what selectRenderables left:
\* an exception of the selection leaves doRender before the render.
renderSelected(s, dc) ==
    IF s.err # NoError THEN [layer |-> s.layer, updated |-> TRUE, err |-> s.err]
    ELSE [layer |-> render(s.layer, dc, 1).layer, updated |-> TRUE, err |-> NoError]

\* doRender with clear(dc) called before the test of needsToUpdate.
doRenderClearing(l, dc) ==
    IF needsToUpdate(l, dc)
    THEN renderSelected(layerSelectRenderables(clear(l, dc), dc), dc)
    ELSE [layer |-> render(clear(l, dc), dc, 1).layer, updated |-> FALSE, err |-> NoError]

\* GraticuleLayer.prototype.doRender
doRender(l, dc) ==
    IF needsToUpdate(l, dc)
    THEN renderSelected(layerSelectRenderables(clear(l, dc), dc), dc)
    ELSE [layer |-> render(l, dc, 1).layer, updated |-> FALSE, err |-> NoError]

-----------------------------------------------------------------------------
(* Calls on the layer                                                       *)

\* What the last call on the layer did; args holds the arguments that are no
\* draw context, out what the call returned.
Frame(op, dco, updated, err) ==
    [op |-> op, dc |-> dco, updated |-> updated, err |-> err, args |-> <<>>, out |-> <<>>]

NoFrame == Frame("", None, FALSE, NoError)

\* A view of the strip of cells of row `row` from the date line to longitude
\* 10, with the frustum inside the cell at longitude 0, seen from `altitude`.
RowView(row, altitude) ==
    DrawContext(
        Globe("earth",
              Some(Sector((-90 + 10 * row) * U + 1, (-80 + 10 * row) * U - 1,
                          -180 * U + 1, 10 * U - 1)),
              "wgs84", FALSE),
        None, Inside(-90 + 10 * row, 0),
        <<(-85 + 10 * row) * U, 5 * U, altitude>>, 100, 1, 0, 0, 45)

\* The view of RowView(row, altitude) turned to a footprint that meets the sector
\* of no tile of the row.
RowAway(row, altitude) ==
    [RowView(row, altitude) EXCEPT !.frustumInModelCoordinates = Inside(-90 + 10 * row, 20)]

\* The draw contexts the layer is rendered with.
LayerContexts ==
    { RowView(9, 1000),
      [RowView(9, 1000) EXCEPT !.navigator.heading = 1],
      [RowView(9, 1000) EXCEPT !.navigator.heading = 2],
      [RowView(9, 1000) EXCEPT !.eyePoint = <<5 * U, 5 * U, 1010>>],
      [RowView(9, 1000) EXCEPT !.eyePoint = <<5 * U, 5 * U, 1011>>],
      [RowView(9, 1000) EXCEPT !.verticalExaggeration = 2],
      [RowView(9, 1000) EXCEPT !.globe.id = "mars"],
      [RowView(9, 1000) EXCEPT !.globe.projectionLimits = None],
      [RowView(9, 1000) EXCEPT !.projectionLimits = Some(FullSphere)],
      RowAway(9, 2000),
      RowAway(10, 2000),
      [RowView(9, 1000) EXCEPT !.globe.projection = [id |-> "mercator", is2D |-> TRUE]] }

\* Longest list of text renderables the direct calls of addLabel build.
MaxLabels == 2

\* The label values addLabel is called with.
LabelValues == {0, 10 * U}

\* layer.doRender(dc)
DoRender(dc) ==
    LET r == doRender(layer, dc)
    IN  /\ layer' = r.layer
        /\ frame' = Frame("doRender", Some(dc), r.updated, r.err)
        /\ UNCHANGED <<tile, ret, host>>

\* layer.addLabel(value, labelType, graticuleLevel, resolution, labelOffset)
AddLabel(value, labelType) ==
    /\ Len(layer.textRenderables) < MaxLabels
    /\ LET r == addLabel(layer, value, labelType, graticuleLatLonLevel0, 10 * U,
                         [latitude |-> 5 * U, longitude |-> 5 * U, altitude |-> 1000])
       IN  /\ layer' = r.layer
           /\ frame' = [Frame("addLabel", None, FALSE, r.err)
                           EXCEPT !.args = <<value, labelType>>]
    /\ UNCHANGED <<tile, ret, host>>

\* The page gives gridTiles its rows: layer.gridTiles[row] = [] for each row of
\* the grid (no code of the layer does).
AllocateGridRows ==
    /\ layer.gridRows = {}
    /\ layer' = [layer EXCEPT !.gridRows = 0..17]
    /\ frame' = Frame("allocate", None, FALSE, NoError)
    /\ UNCHANGED <<tile, ret, host>>

Init ==
    /\ tile \in ConstructedTiles
    /\ ret = NothingReturned
    /\ layer = LatLonGraticuleLayer
    /\ frame = NoFrame
    /\ host \in [arrayContains : BOOLEAN]

TileNext ==
    \/ \E dc \in TileContexts : TileSelectRenderables(dc)
    \/ \E dc \in TileContexts : TileIsInView(dc)
    \/ \E dc \in TileContexts : TileBaseIsInView(dc)
    \/ TileClearRenderables
    \/ TileCreateRenderables
    \/ TileCreateSubTiles

TileInit ==
    /\ Init
    /\ host.arrayContains = FALSE

\* The calls on one tile.
TileSpec == TileInit /\ [][TileNext]_vars

Next ==
    \/ \E dc \in LayerContexts : DoRender(dc)
    \/ \E value \in LabelValues, labelType \in {typeLatitudeLabel, typeLongitudeLabel} :
          AddLabel(value, labelType)
    \/ AllocateGridRows

LayerInit ==
    /\ Init
    /\ tile = LatLonGraticuleGridTile(Cell(0, 0), 10, 0)

\* The calls on the layer.
Spec == LayerInit /\ [][Next]_vars

-----------------------------------------------------------------------------
(* Properties of the tile tree                                              *)

Range(seq) == {seq[i] : i \in 1..Len(seq)}

SubTilesOf(t) == IF IsSome(t.subTiles) THEN Range(Val(t.subTiles)) ELSE {}

\* The tiles below t, at any depth.
RECURSIVE Below(_)
Below(t) == SubTilesOf(t) \cup UNION {Below(c) : c \in SubTilesOf(t)}

Cleared(t) == t.gridElements = None /\ t.subTiles = None

\* The last call on the tile was selectRenderables and it returned normally.
Selected == ret.op = "selectRenderables" /\ ret.err = NoError

\* selectRenderables(dc) on t reaches the loop over the subtiles: neither
\* return of lines 114 and 135 is taken.
descends(t, dc) ==
    /\ ~(t.level = 0 /\ sizePerDivisionBelow(getSizeInPixels(t, dc), t.divisions,
                                             instanceMinCellSizePixels))
    /\ ~sizePerDivisionBelow(getSizeInPixels(t, dc), t.divisions,
                             Some(minCellSizePixels * 2))

\* The subtiles of t split its sector in divisions x divisions equal parts.
Partitioned(t) ==
    LET cs == Val(t.subTiles)
    IN  /\ Len(cs) = t.divisions * t.divisions
        /\ \A i \in 1..Len(cs) :
              /\ deltaLatitude(cs[i].sector) * t.divisions = deltaLatitude(t.sector)
              /\ deltaLongitude(cs[i].sector) * t.divisions = deltaLongitude(t.sector)
              /\ cs[i].sector.minLatitude >= t.sector.minLatitude
              /\ cs[i].sector.maxLatitude <= t.sector.maxLatitude
              /\ cs[i].sector.minLongitude >= t.sector.minLongitude
              /\ cs[i].sector.maxLongitude <= t.sector.maxLongitude
        /\ \A i, j \in 1..Len(cs) : i < j => ~overlaps(cs[i].sector, cs[j].sector)

\* C1: every tile whose subtiles exist has divisions x divisions of them, each
\* spanning deltaLat/divisions by deltaLon/divisions inside the parent's sector,
\* no two sharing interior, so that together they are the parent's sector.
C1_Partition ==
    \A t \in {tile} \cup Below(tile) : IsSome(t.subTiles) => Partitioned(t)

\* C2: a call of selectRenderables ends after finitely many nested calls: it
\* never exhausts the call stack.
C2_SelectionTerminates ==
    ret.op = "selectRenderables" => ret.err # "RangeError"

\* The gridElements of t whose line is the renderable of the selected path p.
ElementsOf(t, p) ==
    {ge \in Range(Val(t.gridElements)) : ge.renderable = p[1]}

\* C5: selectRenderables on a level-0 tile whose cell size (size / divisions)
\* is below 40 pixels returns only the tile's boundary lines and their label
\* requests, all at the level-0 tag.
C5_Level0EarlyReturn ==
    (/\ Selected
     /\ tile.level = 0
     /\ sizePerDivisionBelow(getSizeInPixels(tile, Val(ret.dc)), tile.divisions,
                             Some(minCellSizePixels)))
    => /\ \A p \in Range(ret.paths) :
             /\ p[2] = graticuleLatLonLevel0
             /\ \A ge \in ElementsOf(tile, p) :
                   ge.type \in {typeLineSouth, typeLineNorth, typeLineWest}
       /\ \A c \in Range(ret.labels) : c.graticuleLevel = graticuleLatLonLevel0

\* C6: what selectRenderables returns holds what every subtile in view, which
\* the call selected, returned in its turn.
C6_ReturnsDescendants ==
    (Selected /\ descends(tile, Val(ret.dc)))
    => \A c \in SubTilesOf(tile) :
          isInView(c, Val(ret.dc)).val
          => /\ Range(selectRenderables(c, ret.dc, 2).paths) \subseteq Range(ret.paths)
             /\ Range(selectRenderables(c, ret.dc, 2).labels) \subseteq Range(ret.labels)

RECURSIVE PrunedWhereDescended(_, _)
PrunedWhereDescended(t, dc) ==
    descends(t, dc)
    => \A c \in SubTilesOf(t) :
          IF isInView(c, dc).val THEN PrunedWhereDescended(c, dc) ELSE Cleared(c)

-----------------------------------------------------------------------------
(* Properties of the layer                                                  *)

\* The last call on the layer was doRender, it rebuilt the lists and it
\* returned normally.
Updated == frame.op = "doRender" /\ frame.updated /\ frame.err = NoError

\* C3: the text renderables hold at most one label of a value and a type: the
\* labels of a frame share their offset, so two of the same value and type are
\* the same text at the same position.
C3_LabelDedup ==
    \A i, j \in 1..Len(layer.textRenderables) :
        i # j => layer.textRenderables[i][1] # layer.textRenderables[j][1]

\* C4: doRender returns normally for every view whose globe has projection
\* limits.
C4_NoErrorPaths ==
    (frame.op = "doRender" /\ IsSome(Val(frame.dc).globe.projectionLimits))
    => frame.err = NoError

VisitedCells(dc) ==
    IF IsSome(dc.globe.projectionLimits)
    THEN Range(cellsOf(getGridRectangleForSector(Val(dc.globe.projectionLimits))))
    ELSE {}

Cached(l) ==
    <<l.pathRenderables, l.textRenderables, l.latitudeLabels, l.longitudeLabels,
      l.globe, l.lastEyePoint, l.lastHeading, l.lastTilt, l.lastFOV,
      l.lastVerticalExaggeration, l.lastProjection, l.gridTiles>>

\* C9: a doRender for which needsToUpdate is false leaves the lists, the label
\* arrays, the snapshot and every tile's gridElements and subTiles as they were.
C9_IdempotentCaching ==
    [][(frame'.op = "doRender" /\ ~frame'.updated) => Cached(layer') = Cached(layer)]_vars

\* A frame that reused a cache holding labels, for a view whose heading is not
\* the snapshot's.
C9_Witness ==
    /\ frame.op = "doRender" /\ ~frame.updated
    /\ layer.textRenderables # <<>>
    /\ IsSome(layer.lastEyePoint)
    /\ Val(frame.dc).navigator.heading # layer.lastHeading

\* The views needsToUpdate is asked about: those rendered and their turns of
\* tilt and field of view by 1 and by 2.
Probes ==
    LayerContexts
    \cup {[RowView(9, 1000) EXCEPT !.navigator.tilt = t] : t \in {1, 2}}
    \cup {[RowView(9, 1000) EXCEPT !.navigator.fieldOfView = f] : f \in {44, 46, 47}}

\* The eye of dc is further from the snapshot's eye point than 1% of its
\* altitude above the ground below that point.
EyeMoved(l, dc) ==
    100 * distanceTo(dc.eyePoint, Val(l.lastEyePoint))
        > distanceTo(dc.eyePoint, <<Val(l.lastEyePoint)[1], Val(l.lastEyePoint)[2], 0>>)

Triggered(l, dc) ==
    \/ EyeMoved(l, dc)
    \/ dc.verticalExaggeration # l.lastVerticalExaggeration
    \/ Abs(dc.navigator.heading - l.lastHeading) > 1
    \/ Abs(dc.navigator.tilt - l.lastTilt) > 1
    \/ Abs(dc.navigator.fieldOfView - l.lastFOV) > 1
    \/ Some(dc.globe.id) # l.globe

\* dc is the snapshot's view but for heading, tilt and field of view, which
\* differ by 1 at most.
WithinOne(l, dc) ==
    /\ dc.eyePoint = Val(l.lastEyePoint)
    /\ dc.verticalExaggeration = l.lastVerticalExaggeration
    /\ Some(dc.globe.id) = l.globe
    /\ Some(dc.globe.projection.id) = l.lastProjection
    /\ Abs(dc.navigator.heading - l.lastHeading) <= 1
    /\ Abs(dc.navigator.tilt - l.lastTilt) <= 1
    /\ Abs(dc.navigator.fieldOfView - l.lastFOV) <= 1

\* C10: needsToUpdate is true without a snapshot; with one it is true when the
\* eye moved by more than 1% of its altitude above ground, the vertical
\* exaggeration differs, heading, tilt or field of view differ by more than 1,
\* or the globe differs; it is false for the snapshot's view, also with
\* heading, tilt or field of view off by exactly 1.
C10_UpdateTriggers ==
    \A dc \in Probes :
        /\ ~IsSome(layer.lastEyePoint) => needsToUpdate(layer, dc)
        /\ (IsSome(layer.lastEyePoint) /\ Triggered(layer, dc)) => needsToUpdate(layer, dc)
        /\ (IsSome(layer.lastEyePoint) /\ WithinOne(layer, dc)) => ~needsToUpdate(layer, dc)

\* A snapshot for which a heading off by 1 does not trigger and a heading off
\* by 2, an eye moved by more than 1% and another globe do.
C10_Witness ==
    /\ IsSome(layer.lastEyePoint)
    /\ \E dc \in Probes : /\ WithinOne(layer, dc)
                          /\ Abs(dc.navigator.heading - layer.lastHeading) = 1
                          /\ ~needsToUpdate(layer, dc)
    /\ \E dc \in Probes : /\ Abs(dc.navigator.heading - layer.lastHeading) = 2
                          /\ needsToUpdate(layer, dc)
    /\ \E dc \in Probes : /\ EyeMoved(layer, dc)
                          /\ dc.navigator = Val(frame.dc).navigator
                          /\ needsToUpdate(layer, dc)
    /\ \E dc \in Probes : /\ dc.eyePoint = Val(layer.lastEyePoint)
                          /\ Some(dc.globe.id) # layer.globe
                          /\ needsToUpdate(layer, dc)

\* The views of Probes under each projection: the globe's 3D one and two flat
\* ones.
ProjectionProbes ==
    {[dc EXCEPT !.globe.projection = p] :
        dc \in Probes,
        p \in {[id |-> "wgs84", is2D |-> FALSE],
               [id |-> "mercator", is2D |-> TRUE],
               [id |-> "equirectangular", is2D |-> TRUE]}}

\* C11: with a snapshot, needsToUpdate is true for every view whose projection
\* is not the snapshot's, whichever of the two is flat.
C11_ProjectionChange ==
    \A dc \in ProjectionProbes :
        (IsSome(layer.lastEyePoint) /\ Some(dc.globe.projection.id) # layer.lastProjection)
        => needsToUpdate(layer, dc)

\* C11, amended: with a snapshot, needsToUpdate is true for every view whose
\* projection is flat (2D) and is not the snapshot's.
C11_FlatProjectionChange ==
    \A dc \in ProjectionProbes :
        (/\ IsSome(layer.lastEyePoint)
         /\ dc.globe.projection.is2D
         /\ Some(dc.globe.projection.id) # layer.lastProjection)
        => needsToUpdate(layer, dc)

\* dc is the snapshot's view but for its projection.
OnlyProjectionDiffers(l, dc) ==
    /\ dc.eyePoint = Val(l.lastEyePoint)
    /\ dc.verticalExaggeration = l.lastVerticalExaggeration
    /\ Some(dc.globe.id) = l.globe
    /\ dc.navigator.heading = l.lastHeading
    /\ dc.navigator.tilt = l.lastTilt
    /\ dc.navigator.fieldOfView = l.lastFOV
    /\ Some(dc.globe.projection.id) # l.lastProjection

\* A snapshot taken under a flat projection, for which the same view under
\* another flat projection triggers and under the 3D projection does not.
C11_Witness ==
    /\ IsSome(layer.lastEyePoint)
    /\ layer.lastProjection = Some("mercator")
    /\ \E dc \in ProjectionProbes : /\ OnlyProjectionDiffers(layer, dc)
                                    /\ dc.globe.projection.is2D
                                    /\ needsToUpdate(layer, dc)
    /\ \E dc \in ProjectionProbes : /\ OnlyProjectionDiffers(layer, dc)
                                    /\ ~dc.globe.projection.is2D
                                    /\ ~needsToUpdate(layer, dc)

-----------------------------------------------------------------------------
(* getLevel                                                                 *)

\* The resolutions getLevel is called with, as fractions num / den of a degree:
\* the bounds of the bands and their neighbours, in every decimal unit.
ResolutionNums ==
    {0, 1, 9, 10, 11, 99, 100, 101, 999, 1000, 1001, 9999, 10000, 10001,
     99999, 100000, 100001, 200000}

ResolutionDens == {1, 10, 100, 1000, 10000, 100000}

\* tile.getLevel(num / den)
TileGetLevel(num, den) ==
    /\ ret' = [Returned("getLevel", None, FALSE, <<>>, <<>>, <<>>, NoError)
                  EXCEPT !.args = <<num, den>>, !.out = <<getLevel(num, den)>>]
    /\ UNCHANGED <<tile, layer, frame, host>>

LevelNext == \E num \in ResolutionNums, den \in ResolutionDens : TileGetLevel(num, den)

CallInit ==
    /\ LayerInit
    /\ host.arrayContains = FALSE

\* The calls of getLevel on one tile.
LevelSpec == CallInit /\ [][LevelNext]_vars

\* How fine a level tag is: 0 to 5, and 6 for no tag.
Fineness(level) ==
    CASE level = graticuleLatLonLevel0 -> 0
      [] level = graticuleLatLonLevel1 -> 1
      [] level = graticuleLatLonLevel2 -> 2
      [] level = graticuleLatLonLevel3 -> 3
      [] level = graticuleLatLonLevel4 -> 4
      [] level = graticuleLatLonLevel5 -> 5
      [] OTHER -> 6

\* The band of the resolution num / den holds: its level is `level`.
InBand(num, den, level) ==
    \/ level = graticuleLatLonLevel0 /\ num >= 10 * den
    \/ level = graticuleLatLonLevel1 /\ num >= den /\ num < 10 * den
    \/ level = graticuleLatLonLevel2 /\ 10 * num >= den /\ num < den
    \/ level = graticuleLatLonLevel3 /\ 100 * num >= den /\ 10 * num < den
    \/ level = graticuleLatLonLevel4 /\ 1000 * num >= den /\ 100 * num < den
    \/ level = graticuleLatLonLevel5 /\ 10000 * num >= den /\ 1000 * num < den
    \/ level = Undefined /\ 10000 * num < den

\* C12: getLevel(r) is level 0 for r >= 10, 1 for 1 <= r < 10, 2 for
\* 0.1 <= r < 1, 3 for 0.01 <= r < 0.1, 4 for 0.001 <= r < 0.01, 5 for
\* 0.0001 <= r < 0.001 and undefined below 0.0001; no resolution is in two
\* bands, and a larger resolution never gets a finer level.
C12_ResolutionToLevel ==
    ret.op = "getLevel"
    => /\ InBand(ret.args[1], ret.args[2], ret.out[1])
       /\ \A level \in {graticuleLatLonLevel0, graticuleLatLonLevel1, graticuleLatLonLevel2,
                        graticuleLatLonLevel3, graticuleLatLonLevel4, graticuleLatLonLevel5,
                        Undefined} :
             InBand(ret.args[1], ret.args[2], level) => level = ret.out[1]
       /\ \A num \in ResolutionNums :
             num >= ret.args[1]
             => Fineness(getLevel(num, ret.args[2])) <= Fineness(ret.out[1])

\* getLevel(10.0) returned level 0.
C12_Witness ==
    /\ ret.op = "getLevel"
    /\ ret.args = <<10000, 1000>>
    /\ ret.out = <<graticuleLatLonLevel0>>

-----------------------------------------------------------------------------
(* Level tags, levels and divisions of the tile tree                        *)

LevelTags ==
    {graticuleLatLonLevel0, graticuleLatLonLevel1, graticuleLatLonLevel2,
     graticuleLatLonLevel3, graticuleLatLonLevel4, graticuleLatLonLevel5}

-----------------------------------------------------------------------------
(* The top-level grid                                                       *)

\* The longitudes and latitudes the grid functions are called with, in units
\* of 1/U degree: inside, on and beyond both ends of the domain.
Longitudes ==
    {d * U : d \in {-360, -200, -190, -181, -180, -175, -170, -90, -10, -1, 0, 5, 10,
                    90, 170, 179, 180, 181, 190, 200, 360}}
    \cup {-180 * U - 1, -180 * U + 1, -170 * U - 1, 180 * U - 1, 180 * U + 1}

Latitudes ==
    {d * U : d \in {-180, -100, -91, -90, -85, -80, -10, -1, 0, 5, 10, 80, 89, 90, 91,
                    100, 180}}
    \cup {-90 * U - 1, -90 * U + 1, -80 * U - 1, 90 * U - 1, 90 * U + 1}

\* layer.getGridColumn(lon)
LayerGetGridColumn(lon) ==
    /\ frame' = [Frame("getGridColumn", None, FALSE, NoError)
                    EXCEPT !.args = <<lon>>, !.out = <<getGridColumn(lon)>>]
    /\ UNCHANGED <<tile, ret, layer, host>>

\* layer.getGridRow(lat)
LayerGetGridRow(lat) ==
    /\ frame' = [Frame("getGridRow", None, FALSE, NoError)
                    EXCEPT !.args = <<lat>>, !.out = <<getGridRow(lat)>>]
    /\ UNCHANGED <<tile, ret, layer, host>>

\* layer.getGridSector(row, col)
LayerGetGridSector(row, col) ==
    /\ frame' = [Frame("getGridSector", None, FALSE, NoError)
                    EXCEPT !.args = <<row, col>>, !.out = <<getGridSector(row, col)>>]
    /\ UNCHANGED <<tile, ret, layer, host>>

\* layer.getGridRectangleForSector(sector)
LayerGetGridRectangleForSector(sector) ==
    /\ frame' = [Frame("getGridRectangleForSector", None, FALSE, NoError)
                    EXCEPT !.args = <<sector>>, !.out = <<getGridRectangleForSector(sector)>>]
    /\ UNCHANGED <<tile, ret, layer, host>>

GridNext ==
    \/ \E lon \in Longitudes : LayerGetGridColumn(lon)
    \/ \E lat \in Latitudes : LayerGetGridRow(lat)
    \/ \E row \in 0..17, col \in 0..35 : LayerGetGridSector(row, col)
    \/ \E sector \in {FullSphere, Cell(0, 0), Cell(80, 170), Cell(-90, -180)} :
          LayerGetGridRectangleForSector(sector)

\* The calls of the grid functions of the layer.
GridSpec == CallInit /\ [][GridNext]_vars

\* index = floor((angle + offset) / 10), angle in units of 1/U degree.
IsFloorIndex(index, angle, offset) ==
    /\ index * 10 * U <= angle + offset * U
    /\ angle + offset * U < (index + 1) * 10 * U

\* C14: getGridColumn(lon) is floor((lon + 180) / 10) for lon in -180..180 and
\* getGridRow(lat) is floor((lat + 90) / 10) for lat in -90..90 (both ends
\* excluded at the top); for every input the column is in 0..35 and the row in
\* 0..17.
C14_GridIndexing ==
    /\ frame.op = "getGridColumn"
       => /\ frame.out[1] \in 0..35
          /\ (frame.args[1] >= -180 * U /\ frame.args[1] < 180 * U)
             => IsFloorIndex(frame.out[1], frame.args[1], 180)
    /\ frame.op = "getGridRow"
       => /\ frame.out[1] \in 0..17
          /\ (frame.args[1] >= -90 * U /\ frame.args[1] < 90 * U)
             => IsFloorIndex(frame.out[1], frame.args[1], 90)

\* C14, amended: the same for the inputs from -180 (longitude) and -90
\* (latitude) on: in range the index is the floor, beyond +180 / +90 it is the
\* last index, 35 or 17.
C14_GridIndexingFromLowerEnd ==
    /\ (frame.op = "getGridColumn" /\ frame.args[1] >= -180 * U)
       => /\ frame.out[1] \in 0..35
          /\ frame.args[1] < 180 * U => IsFloorIndex(frame.out[1], frame.args[1], 180)
          /\ frame.args[1] >= 180 * U => frame.out[1] = 35
    /\ (frame.op = "getGridRow" /\ frame.args[1] >= -90 * U)
       => /\ frame.out[1] \in 0..17
          /\ frame.args[1] < 90 * U => IsFloorIndex(frame.out[1], frame.args[1], 90)
          /\ frame.args[1] >= 90 * U => frame.out[1] = 17

\* getGridColumn(190) returned the last column.
C14_Witness ==
    /\ frame.op = "getGridColumn"
    /\ frame.args = <<190 * U>>
    /\ frame.out = <<35>>

\* C15: every top-level tile the layer has created for a cell (row, col) has
\* divisions 10, level 0 and the sector [-90 + 10 row, -80 + 10 row] x
\* [-180 + 10 col, -170 + 10 col], whose points getGridRow and getGridColumn
\* map to row and col.
C15_TopLevelCells ==
    \A c \in DOMAIN layer.gridTiles :
        /\ c[1] \in 0..17 /\ c[2] \in 0..35
        /\ layer.gridTiles[c].divisions = 10
        /\ layer.gridTiles[c].level = 0
        /\ layer.gridTiles[c].sector =
              Sector((-90 + 10 * c[1]) * U, (-80 + 10 * c[1]) * U,
                     (-180 + 10 * c[2]) * U, (-170 + 10 * c[2]) * U)
        /\ getGridRow(layer.gridTiles[c].sector.minLatitude) = c[1]
        /\ getGridColumn(layer.gridTiles[c].sector.minLongitude) = c[2]

-----------------------------------------------------------------------------
(* Labels and the reset of an update                                        *)

\* The text addLabel makes for a value and a label type, at the offset and the
\* resolution AddLabel calls it with.
LabelOf(value, labelType) ==
    IF labelType = typeLatitudeLabel
    THEN GeographicText(makeAngleLabel(value, 10 * U, U), value, 5 * U)
    ELSE GeographicText(makeAngleLabel(value, 10 * U, U), 5 * U, value)

\* The places of the text renderables that are the label of value and type.
PlacesOf(l, value, labelType) ==
    {i \in 1..Len(l.textRenderables) : l.textRenderables[i][1] = LabelOf(value, labelType)}

\* C16: after a label request that returned normally, the label of the
\* requested value and type is among the text renderables exactly once: the
\* first request made it, no later request made another, and no label of the
\* same value and the other type kept it from being made.
C16_LabelledExactlyOnce ==
    (frame.op = "addLabel" /\ frame.err = NoError)
    => Cardinality(PlacesOf(layer, frame.args[1], frame.args[2])) = 1

\* The snapshot the layer holds, and the one a view gives.
SnapshotOf(l) ==
    <<l.lastEyePoint, l.lastHeading, l.lastTilt, l.lastFOV, l.lastVerticalExaggeration,
      l.globe, l.lastProjection>>

ViewOf(dc) ==
    <<Some(dc.eyePoint), dc.navigator.heading, dc.navigator.tilt, dc.navigator.fieldOfView,
      dc.verticalExaggeration, Some(dc.globe.id), Some(dc.globe.projection.id)>>

\* The layer with its renderable lists and label arrays empty.
Emptied(l) ==
    [l EXCEPT !.pathRenderables = <<>>, !.textRenderables = <<>>,
              !.latitudeLabels = <<>>, !.longitudeLabels = <<>>]

\* C17: a doRender for which needsToUpdate is true, also one that throws during
\* the selection, leaves the view as the snapshot, and leaves the layer as it
\* would had the lists and the label arrays been empty before the frame:
\* nothing an earlier frame listed or labelled has a part in it.
C17_UpdateResets ==
    [][(frame'.op = "doRender" /\ frame'.updated)
       => /\ SnapshotOf(layer') = ViewOf(Val(frame'.dc))
          /\ layer' = doRender(Emptied(layer), Val(frame'.dc)).layer]_vars

\* An update frame on a layer whose snapshot was another view's, on a page
\* where addLabel makes labels.
C17_Witness ==
    /\ frame.op = "doRender" /\ frame.updated
    /\ host.arrayContains
    /\ layer.lastHeading = 2
    /\ layer.gridRows # {}
    /\ SnapshotOf(layer) = ViewOf(Val(frame.dc))
    /\ layer.latitudeLabels = <<>> /\ layer.textRenderables = <<>>

-----------------------------------------------------------------------------
(* Levels and divisions                                                     *)

\* sector, divisions and level of a tile: what its constructor was given.
Constructed(t) == LatLonGraticuleGridTile(t.sector, t.divisions, t.level)

\* C18: in the tree of the tile, every subtile has the level of its parent
\* plus 1; the tile itself keeps the level (with the sector and the divisions)
\* it was constructed with, 0 for the top-level cells.
C18_LevelMonotonicity ==
    /\ \A t \in {tile} \cup Below(tile) : \A c \in SubTilesOf(t) : c.level = t.level + 1
    /\ Constructed(tile) \in ConstructedTiles

\* A tree three levels deep below a top-level tile.
C18_Witness ==
    /\ tile.level = 0
    /\ \E c \in SubTilesOf(tile) : \E d \in SubTilesOf(c) : SubTilesOf(d) # {} /\ d.level = 2

\* C19: every subtile has 6 divisions when its parent's level is 0 or 2 and 10
\* otherwise, so that every tile of the tree has 6 divisions at the levels 1
\* and 3 and 10 at every other level.
C19_ChildDivisions ==
    /\ \A t \in {tile} \cup Below(tile) :
          \A c \in SubTilesOf(t) :
              c.divisions = IF t.level \in {0, 2} THEN 6 ELSE 10
    /\ \A t \in {tile} \cup Below(tile) :
          t.divisions = IF t.level \in {1, 3} THEN 6 ELSE 10

\* A tree with subtiles below parents of the levels 0, 1, 2 and 3.
C19_Witness ==
    \A level \in 0..3 :
        \E t \in {tile} \cup Below(tile) :
            /\ t.level = level
            /\ \E c \in SubTilesOf(t) : c.divisions = IF level \in {0, 2} THEN 6 ELSE 10

-----------------------------------------------------------------------------
(* clearRenderables                                                         *)

RECURSIVE CountBelow(_)
RECURSIVE CountFrom(_, _, _)

\* The number of tiles in and below the subtiles i to j of subs.
CountFrom(subs, i, j) ==
    IF i > j THEN 0
    ELSE IF i = j THEN 1 + CountBelow(subs[i])
    ELSE CountFrom(subs, i, (i + j) \div 2) + CountFrom(subs, ((i + j) \div 2) + 1, j)

\* The number of tiles below t.
CountBelow(t) ==
    IF IsSome(t.subTiles) THEN CountFrom(Val(t.subTiles), 1, Len(Val(t.subTiles))) ELSE 0

\* C20: clearRenderables leaves the tile without gridElements and subTiles and
\* with its sector, divisions and level; every tile that was below it is left
\* cleared; on a tile already clear it changes nothing.
C20_ClearPostcondition ==
    [][ret'.op = "clearRenderables"
       => /\ Cleared(tile')
          /\ Constructed(tile') = Constructed(tile)
          /\ Len(ret'.out) = CountBelow(tile)
          /\ {Constructed(d) : d \in Range(ret'.out)} = {Constructed(b) : b \in Below(tile)}
          /\ \A d \in Range(ret'.out) : Cleared(d)
          /\ Cleared(tile) => tile' = tile]_vars

\* clearRenderables has cleared a tile that held a tree two levels deep.
C20_Witness ==
    /\ ret.op = "clearRenderables"
    /\ Cleared(tile)
    /\ \E d, e \in Range(ret.out) : e.level = d.level + 1 /\ d.level = tile.level + 1

-----------------------------------------------------------------------------
(* Properties of the visibility tests                                       *)

\* The last call on the tile was isInView.
Tested == ret.op = "isInView"

\* The cell size of t in the view dc, size / divisions, is below 40 pixels.
BelowCutoff(t, dc) ==
    sizePerDivisionBelow(getSizeInPixels(t, dc), t.divisions, Some(minCellSizePixels))

\* The test the base class is to make: the bounding volume meets the frustum
\* and, with projection limits in force, the sector overlaps them.
BaseTest(t, dc) ==
    /\ intersectsFrustum(t.sector, dc.frustumInModelCoordinates)
    /\ IsSome(dc.projectionLimits) => overlaps(t.sector, Val(dc.projectionLimits))

\* C21: isInView on a tile of level above 0 whose cell size is below 40 pixels
\* returns false whether or not the frustum is met; on a level-0 tile the call
\* returns what the base test gives, whatever the size in pixels; and isInView
\* never returns true when the base test fails.
C21_LodCutoff ==
    Tested =>
        /\ (tile.level > 0 /\ BelowCutoff(tile, Val(ret.dc)))
           => (ret.err = NoError /\ ret.val = FALSE)
        /\ tile.level = 0
           => (ret.err = NoError /\ ret.val = BaseTest(tile, Val(ret.dc)))
        /\ (ret.err = NoError /\ ret.val) => BaseTest(tile, Val(ret.dc))

\* The tile is visible in the view dc: the base test passes and, beyond level
\* 0, the cell size is not below 40 pixels.
Visible(t, dc) == BaseTest(t, dc) /\ ~(t.level > 0 /\ BelowCutoff(t, dc))

\* The cell size of t in the view dc is below 80 pixels (2 x 40).
BelowDescent(t, dc) ==
    sizePerDivisionBelow(getSizeInPixels(t, dc), t.divisions, Some(minCellSizePixels * 2))

\* C22: a call of selectRenderables on a tile whose cell size is below 80
\* pixels creates and visits no subtile; a call on a tile whose cell size is 80
\* pixels or more leaves the tile with its subtiles, each visible one selected
\* (its gridElements present) and each other one cleared.
C22_RecursionThreshold ==
    [][ret'.op = "selectRenderables"
       => IF BelowDescent(tile, Val(ret'.dc))
          THEN tile'.subTiles = tile.subTiles
          ELSE /\ IsSome(tile'.subTiles)
               /\ \A c \in SubTilesOf(tile') :
                     IF Visible(c, Val(ret'.dc)) THEN IsSome(c.gridElements)
                     ELSE Cleared(c)]_vars

-----------------------------------------------------------------------------
(* Properties of the grid elements                                          *)

\* The element marks the meridian of tile t at its value: its sector and its
\* line run along that longitude from the tile's south edge to its north edge.
IsMeridian(e, t) ==
    /\ e.sector = Sector(t.sector.minLatitude, t.sector.maxLatitude, e.value, e.value)
    /\ e.renderable.positions = <<<<t.sector.minLatitude, e.value>>,
                                  <<t.sector.maxLatitude, e.value>>>>

\* The element marks the parallel of tile t at its value.
IsParallel(e, t) ==
    /\ e.sector = Sector(e.value, e.value, t.sector.minLongitude, t.sector.maxLongitude)
    /\ e.renderable.positions = <<<<e.value, t.sector.minLongitude>>,
                                  <<e.value, t.sector.maxLongitude>>>>

\* What an element of tile t is: its type, the kind of line it marks and the
\* coordinate.
Mark(e, t) ==
    <<e.type,
      IF IsMeridian(e, t) THEN "meridian" ELSE IF IsParallel(e, t) THEN "parallel" ELSE "",
      e.value>>

\* The coordinates strictly between lo and hi that lie a multiple of step from lo.
Interior(lo, hi, step) == {x \in (lo + 1)..(hi - 1) : (x - lo) % step = 0}

\* The marks of a tile's elements, with or without the lines of the western
\* and southern edges.
Marks(t, edges) ==
    LET step == deltaLatitude(t.sector) \div t.divisions
    IN  {<<typeLine, "meridian", x>> :
             x \in Interior(t.sector.minLongitude, t.sector.maxLongitude, step)}
        \cup {<<typeLine, "parallel", y>> :
                 y \in Interior(t.sector.minLatitude, t.sector.maxLatitude, step)}
        \cup (IF edges THEN {<<typeLineWest, "meridian", t.sector.minLongitude>>,
                             <<typeLineSouth, "parallel", t.sector.minLatitude>>}
              ELSE {})
        \cup (IF t.sector.maxLatitude = 90 * U THEN {<<typeLineNorth, "parallel", 90 * U>>}
              ELSE {})

\* The gridElements of t are one element for each of the marks.
GeneratedAs(t, edges) ==
    LET es == Val(t.gridElements)
    IN  /\ {Mark(es[i], t) : i \in 1..Len(es)} = Marks(t, edges)
        /\ Len(es) = Cardinality(Marks(t, edges))

\* C23: the gridElements of any tile are one LineWest at minLongitude, one
\* LineSouth at minLatitude, a LineNorth at latitude 90 exactly when
\* maxLatitude is 90, and one Line for each interior meridian and parallel,
\* deltaLatitude / divisions apart; none lies on the eastern edge and each
\* element's value is the coordinate it marks.
C23_ElementGeneration ==
    \A t \in {tile} \cup Below(tile) : IsSome(t.gridElements) => GeneratedAs(t, TRUE)

\* C23, amended: the lines of the western and southern edges are generated on
\* a tile of level 0 only; a tile of any other level holds the interior lines
\* and, when maxLatitude is 90, the LineNorth.
C23_EdgesAtLevel0 ==
    \A t \in {tile} \cup Below(tile) :
        IsSome(t.gridElements) => GeneratedAs(t, t.level = 0)

\* createRenderables was called on a tile of level 1, which holds its 5
\* interior meridians and 5 interior parallels.
C23_Witness ==
    /\ ret.op = "createRenderables"
    /\ tile.level = 1
    /\ IsSome(tile.gridElements)
    /\ Len(Val(tile.gridElements)) = 10

\* The label type the request for element ge of tile t is to carry.
LabelTypeOf(ge, t) ==
    IF ge.type \in {typeLineNorth, typeLineSouth} THEN typeLatitudeLabel
    ELSE IF ge.type = typeLineWest THEN typeLongitudeLabel
    ELSE IF IsMeridian(ge, t) THEN typeLongitudeLabel
    ELSE typeLatitudeLabel

\* C24: each label request selectRenderables queues goes with the line pushed
\* at the same place.  For a boundary line of a level-0 tile its type is
\* LatitudeLabel (LineNorth, LineSouth) or LongitudeLabel (LineWest); for a
\* Line it is LongitudeLabel for a meridian and LatitudeLabel for a parallel;
\* its value is the element's value, the coordinate the element marks.
C24_LabelTypes ==
    ret.op = "selectRenderables"
    => /\ Len(ret.labels) = Len(ret.paths)
       /\ \A i \in 1..Len(ret.labels) :
             /\ ElementsOf(tile, ret.paths[i]) # {}
             /\ \A ge \in ElementsOf(tile, ret.paths[i]) :
                   /\ IsMeridian(ge, tile) \/ IsParallel(ge, tile)
                   /\ ge.type # typeLine => tile.level = 0
                   /\ ret.labels[i].value = ge.value
                   /\ ret.labels[i].labelType = LabelTypeOf(ge, tile)

\* A selection on a level-0 tile that queued a longitude label for the western
\* edge, a latitude label for the southern edge, and labels of both types for
\* interior lines.
C24_Witness ==
    /\ Selected
    /\ tile.level = 0
    /\ \E i, j, k, l \in 1..Len(ret.labels) :
          /\ \E ge \in ElementsOf(tile, ret.paths[i]) :
                ge.type = typeLineWest /\ ret.labels[i].labelType = typeLongitudeLabel
          /\ \E ge \in ElementsOf(tile, ret.paths[j]) :
                ge.type = typeLineSouth /\ ret.labels[j].labelType = typeLatitudeLabel
          /\ \E ge \in ElementsOf(tile, ret.paths[k]) :
                /\ ge.type = typeLine /\ IsMeridian(ge, tile)
                /\ ret.labels[k].labelType = typeLongitudeLabel
          /\ \E ge \in ElementsOf(tile, ret.paths[l]) :
                /\ ge.type = typeLine /\ IsParallel(ge, tile)
                /\ ret.labels[l].labelType = typeLatitudeLabel

-----------------------------------------------------------------------------
(* Properties of a frame                                                    *)

\* The view supplies no visible region.
NothingVisible(dc) == ~IsSome(dc.globe.projectionLimits)

\* C25: with no visible region (projectionLimits null) getVisibleTiles returns
\* an empty list and leaves every tile as it is, none made and none cleared;
\* a doRender with such a view leaves gridTiles as it is, and when it updates
\* it ends normally with the lists of lines and of labels empty.
C25_NothingVisible ==
    [][(frame'.op = "doRender" /\ NothingVisible(Val(frame'.dc)))
       => /\ getVisibleTiles(layer, Val(frame'.dc))
                = [layer |-> layer, tileList |-> <<>>, err |-> NoError]
          /\ layer'.gridTiles = layer.gridTiles
          /\ frame'.updated
             => /\ frame'.err = NoError
                /\ layer'.pathRenderables = <<>>
                /\ layer'.textRenderables = <<>>
                /\ layer'.latitudeLabels = <<>>
                /\ layer'.longitudeLabels = <<>>]_vars

\* An update with no visible region, on a layer that holds a tile with its
\* gridElements.
C25_Witness ==
    /\ Updated
    /\ NothingVisible(Val(frame.dc))
    /\ \E c \in DOMAIN layer.gridTiles : IsSome(layer.gridTiles[c].gridElements)
    /\ layer.pathRenderables = <<>>
    /\ layer.textRenderables = <<>>

\* C26: GraticuleGridTile.isInView returns a boolean, true exactly when the
\* tile's bounding volume meets the frustum and, with projection limits in
\* force, the tile's sector overlaps them; it leaves the tile as it is.
C26_BaseVisibility ==
    [][ret'.op = "GraticuleGridTile.isInView"
       => /\ ret'.err = NoError
          /\ ret'.val = BaseTest(tile, Val(ret'.dc))
          /\ tile' = tile]_vars

\* C27: a top-level tile, once made, stays in gridTiles at its cell through
\* every operation, with its sector, divisions and level; only its
\* gridElements and subTiles may change.
C27_RootTilesKept ==
    [][\A c \in DOMAIN layer.gridTiles :
          /\ c \in DOMAIN layer'.gridTiles
          /\ layer'.gridTiles[c].sector = layer.gridTiles[c].sector
          /\ layer'.gridTiles[c].divisions = layer.gridTiles[c].divisions
          /\ layer'.gridTiles[c].level = layer.gridTiles[c].level]_vars

\* An update frame after which the layer holds a tile made by an earlier frame
\* for a cell this frame did not visit, and a tile of a visited cell that the
\* frame cleared.
C27_Witness ==
    /\ frame.op = "doRender"
    /\ frame.updated
    /\ DOMAIN layer.gridTiles \ VisitedCells(Val(frame.dc)) # {}
    /\ \E c \in DOMAIN layer.gridTiles \cap VisitedCells(Val(frame.dc)) :
          Cleared(layer.gridTiles[c])

-----------------------------------------------------------------------------
(* Properties of the element cache                                          *)

\* C28: selectRenderables calls createRenderables on its tile only when the
\* tile holds no gridElements, and then once; a selection of a tile that holds
\* gridElements leaves it the same elements.  So between two calls of
\* clearRenderables on the tile, createRenderables runs at most once.
C28_LazyGeneration ==
    [][ret'.op = "selectRenderables"
       => IF IsSome(tile.gridElements)
          THEN ret'.out = <<0>> /\ tile'.gridElements = tile.gridElements
          ELSE ret'.out = <<1>> /\ IsSome(tile'.gridElements)]_vars

\* A selection that returned normally on a tile that held its gridElements:
\* createRenderables was not called.
C28_Witness ==
    /\ Selected
    /\ ret.out = <<0>>
    /\ IsSome(tile.gridElements)
    /\ Len(ret.paths) > 0

-----------------------------------------------------------------------------
(* Properties of the snapshot                                               *)

\* The snapshot of l is no staler than the bound for the view dc: heading,
\* tilt and field of view within 1 degree, same vertical exaggeration and globe.
WithinBound(l, dc) ==
    /\ Abs(l.lastHeading - dc.navigator.heading) <= 1
    /\ Abs(l.lastTilt - dc.navigator.tilt) <= 1
    /\ Abs(l.lastFOV - dc.navigator.fieldOfView) <= 1
    /\ l.lastVerticalExaggeration = dc.verticalExaggeration
    /\ l.globe = Some(dc.globe.id)

\* C29: after every doRender the snapshot is within the bound of the frame's
\* view; a frame that does not rebuild leaves the snapshot as it was, so the
\* thresholds are always measured against the view of the last rebuild.
C29_StalenessBound ==
    [][frame'.op = "doRender"
       => /\ WithinBound(layer', Val(frame'.dc))
          /\ ~frame'.updated => SnapshotOf(layer') = SnapshotOf(layer)]_vars

\* A frame that kept a snapshot whose heading is 1 degree from the view's.
C29_Witness ==
    /\ frame.op = "doRender"
    /\ ~frame.updated
    /\ Abs(layer.lastHeading - Val(frame.dc).navigator.heading) = 1

\* C30: after a frame that rebuilt for a view, needsToUpdate for that same
\* view is false, and a frame that follows a frame with the same view does not
\* rebuild: two frames in a row with one view rebuild once at most.
C30_SnapshotConsistency ==
    [][/\ (frame'.op = "doRender" /\ frame'.updated)
          => ~needsToUpdate(layer', Val(frame'.dc))
       /\ (frame.op = "doRender" /\ frame'.op = "doRender" /\ frame'.dc = frame.dc)
          => ~frame'.updated]_vars

\* A frame that did not rebuild, for the very view of the last rebuild.
C30_Witness ==
    /\ frame.op = "doRender"
    /\ ~frame.updated
    /\ SnapshotOf(layer) = ViewOf(Val(frame.dc))
    /\ Val(frame.dc).navigator.heading = 2

-----------------------------------------------------------------------------
(* Properties of the stored renderables                                     *)

\* The stored line p is the line of a grid element of a top-level tile that is
\* in view for dc.
SelectedLine(l, p, dc) ==
    \E c \in DOMAIN l.gridTiles :
        /\ isInView(l.gridTiles[c], dc).val
        /\ IsSome(l.gridTiles[c].gridElements)
        /\ \E ge \in Range(Val(l.gridTiles[c].gridElements)) : ge.renderable = p[1]

\* The stored text x is the label of a value the label arrays hold.
SelectedLabel(l, x) ==
    x[1].text.angle \in Range(l.latitudeLabels) \cup Range(l.longitudeLabels)

\* C31: after an update frame the stored lines and labels are those of this
\* update only: each line is a line of a tile in view, each label is the label
\* of a value labelled in this update, one label for each such value.  What
\* earlier frames or calls had stored is gone, so the lists do not grow from
\* frame to frame.
C31_NoAccumulation ==
    (frame.op = "doRender" /\ frame.updated)
    => /\ \A i \in 1..Len(layer.pathRenderables) :
             SelectedLine(layer, layer.pathRenderables[i], Val(frame.dc))
       /\ \A j \in 1..Len(layer.textRenderables) :
             SelectedLabel(layer, layer.textRenderables[j])
       /\ Len(layer.textRenderables)
             = Len(layer.latitudeLabels) + Len(layer.longitudeLabels)

\* A later update, for another globe, on a page where addLabel stores labels
\* and on a layer whose tile was selected by an earlier frame.
C31_Witness ==
    /\ frame.op = "doRender" /\ frame.updated
    /\ host.arrayContains
    /\ Val(frame.dc).globe.id = "mars"
    /\ \E c \in DOMAIN layer.gridTiles : IsSome(layer.gridTiles[c].gridElements)
    /\ layer.textRenderables = <<>>

-----------------------------------------------------------------------------
(* Properties of one selection                                              *)

\* The lines a pass selected.
LinesOf(sel) == {sel.paths[i][1] : i \in 1..Len(sel.paths)}

\* C32: one call of selectRenderables emits each grid element of its tile as a
\* line at most once and queues one label request for each line emitted; on
\* a level-0 tile the boundary pass and the grid pass select no element in
\* common.
C32_NoDoubleEmission ==
    ret.op = "selectRenderables"
    => /\ \A ge \in Range(Val(tile.gridElements)) :
             Cardinality({i \in 1..Len(ret.paths) : ret.paths[i][1] = ge.renderable}) <= 1
       /\ \A i \in 1..Len(ret.paths) : Cardinality(ElementsOf(tile, ret.paths[i])) = 1
       /\ Len(ret.labels) = Len(ret.paths)
       /\ tile.level = 0
          => LinesOf(selectBoundary(tile, Val(ret.dc)))
                \cap LinesOf(selectGrid(tile, Val(ret.dc))) = {}

\* A selection on a level-0 tile that emitted every element of the tile, the
\* boundary lines and the interior lines, once each.
C32_Witness ==
    /\ Selected
    /\ tile.level = 0
    /\ Len(ret.paths) = 20
    /\ LinesOf(selectBoundary(tile, Val(ret.dc))) # {}
    /\ LinesOf(selectGrid(tile, Val(ret.dc))) # {}
    /\ \A ge \in Range(Val(tile.gridElements)) : \E i \in 1..Len(ret.paths) :
          ret.paths[i][1] = ge.renderable

-----------------------------------------------------------------------------
(* Properties of the tile cache under the calls of the program              *)

\* The calls the layer and a parent tile make on a tile: isInView and
\* selectRenderables or clearRenderables (LatLonGraticuleLayer.js lines 110,
\* 113 and 346; LatLonGraticuleGridTile.js lines 141 and 142).  No code calls
\* createRenderables or createSubTiles but selectRenderables itself.
SelectionNext ==
    \/ \E dc \in TileContexts : TileSelectRenderables(dc)
    \/ \E dc \in TileContexts : TileIsInView(dc)
    \/ TileClearRenderables

SelectionSpec == TileInit /\ [][SelectionNext]_vars

\* C33: every tile that holds subTiles holds gridElements too, the tile the
\* calls are made on and every tile below it.
C33_SubTilesNeedElements ==
    \A t \in {tile} \cup Below(tile) : IsSome(t.subTiles) => IsSome(t.gridElements)

\* After a selection the tile holds its elements and its subtiles, one of them
\* selected and holding subtiles of its own, another cleared.
C33_Witness ==
    /\ ret.op = "selectRenderables"
    /\ IsSome(tile.gridElements) /\ IsSome(tile.subTiles)
    /\ \E c \in SubTilesOf(tile) : IsSome(c.gridElements) /\ IsSome(c.subTiles)
    /\ \E c \in SubTilesOf(tile) : Cleared(c)

-----------------------------------------------------------------------------
(* Calls on the layer's renderables and rendering params                    *)

\* Most renderables, lines and labels together, the calls store.
MaxRenderables == 2

\* A key no params are registered for by the constructor.
graticuleCustom == "Graticule.Custom"

\* The keys the calls use.
StyleKeys == {graticuleLatLonLevel0, graticuleCustom}

\* The rendering params the calls register: lines off, labels off, and a
\* dashed red line of width 2.
StyleParams ==
    { [GraticuleRenderingParams("white") EXCEPT !.drawLines = FALSE],
      [GraticuleRenderingParams("white") EXCEPT !.drawLabels = FALSE],
      [GraticuleRenderingParams("red") EXCEPT !.lineWidth = 2,
                                              !.lineStyle = "LineStyleDashed"] }

\* The line and the label the calls store.
StoredPath == [kind |-> "Path", positions |-> <<<<0, 0>>, <<0, 10 * U>>>>]
StoredText == GeographicText(makeAngleLabel(0, 10 * U, U), 0, 5 * U)

\* layer.setRenderingParams(paramKey, renderingParams)
SetRenderingParams(paramKey, renderingParams) ==
    /\ layer' = setRenderingParams(layer, paramKey, renderingParams)
    /\ frame' = [Frame("setRenderingParams", None, FALSE, NoError)
                    EXCEPT !.args = <<paramKey, renderingParams>>]
    /\ UNCHANGED <<tile, ret, host>>

\* layer.addPathRenderable(path, paramKey)
AddPathRenderable(paramKey) ==
    /\ Len(layer.pathRenderables) + Len(layer.textRenderables) < MaxRenderables
    /\ layer' = addPathRenderable(layer, StoredPath, paramKey)
    /\ frame' = [Frame("addPathRenderable", None, FALSE, NoError)
                    EXCEPT !.args = <<StoredPath, paramKey>>]
    /\ UNCHANGED <<tile, ret, host>>

\* layer.addTextRenderable(text, paramKey)
AddTextRenderable(paramKey) ==
    /\ Len(layer.pathRenderables) + Len(layer.textRenderables) < MaxRenderables
    /\ layer' = addTextRenderable(layer, StoredText, paramKey)
    /\ frame' = [Frame("addTextRenderable", None, FALSE, NoError)
                    EXCEPT !.args = <<StoredText, paramKey>>]
    /\ UNCHANGED <<tile, ret, host>>

\* layer.removeAllRenderables()
RemoveAllRenderables ==
    /\ layer' = removeAllRenderables(layer)
    /\ frame' = Frame("removeAllRenderables", None, FALSE, NoError)
    /\ UNCHANGED <<tile, ret, host>>

\* layer.graticuleSupport.render(dc, layer.opacity); frame.out holds the lines
\* and the labels rendered.
Render(dc) ==
    LET r == render(layer, dc, 1)
    IN  /\ layer' = r.layer
        /\ frame' = [Frame("render", Some(dc), FALSE, NoError)
                        EXCEPT !.out = <<r.lines, r.labels>>]
        /\ UNCHANGED <<tile, ret, host>>

SupportNext ==
    \/ \E paramKey \in StyleKeys, renderingParams \in StyleParams :
          SetRenderingParams(paramKey, renderingParams)
    \/ \E paramKey \in StyleKeys : AddPathRenderable(paramKey)
    \/ \E paramKey \in StyleKeys : AddTextRenderable(paramKey)
    \/ RemoveAllRenderables
    \/ Render(RowView(9, 1000))

\* The calls on the renderables and the rendering params of a new layer.
SupportSpec == CallInit /\ [][SupportNext]_vars

\* The stored renderables of l that pass the gate: params registered for the
\* key, with the flag set (drawLines or drawLabels).
Styled(l, stored, flag) ==
    LET Passes(x) == x[2] \in DOMAIN l.namedParams /\ l.namedParams[x[2]][flag]
    IN  SelectSeq(stored, Passes)

\* C34: render draws the stored lines whose key has params registered with
\* drawLines, and the stored labels whose key has params registered with
\* drawLabels, and no other; the six level tags have params registered from
\* the construction of the layer on.
C34_StyleGating ==
    [][/\ LevelTags \subseteq DOMAIN layer.namedParams
       /\ frame'.op = "render"
          => /\ [i \in 1..Len(frame'.out[1]) |->
                    <<frame'.out[1][i].path, frame'.out[1][i].paramKey>>]
                = Styled(layer, layer.pathRenderables, "drawLines")
             /\ [i \in 1..Len(frame'.out[2]) |->
                    <<frame'.out[2][i].text, frame'.out[2][i].paramKey>>]
                = Styled(layer, layer.textRenderables, "drawLabels")]_vars

\* A render that drew one of two stored lines and skipped the other, whose
\* key has no params or has params with drawLines off.
C34_Witness ==
    /\ frame.op = "render"
    /\ Len(layer.pathRenderables) = 2
    /\ Len(frame.out[1]) = 1

\* C35: every line a render draws with key k has shape attributes, the ones
\* built from the rendering params registered for k at that render, and the
\* cache of shape attributes holds attributes for k from that draw on.
C35_LineStyleAttributes ==
    frame.op = "render"
    => \A i \in 1..Len(frame.out[1]) :
          LET k == frame.out[1][i].paramKey
          IN  /\ frame.out[1][i].attributes
                 = Some(newShapeAttributes(layer.namedParams[k], 1))
              /\ k \in DOMAIN layer.namedShapeAttributes
              /\ IsSome(layer.namedShapeAttributes[k])

====
